---- MODULE Spec2Model ----
(***************************************************************************)
(* gsd-cron: the dynamic dispatcher (src/src/runner.rs) and the roadmap    *)
(* and artifact inspection it rests on (src/src/parser.rs).                *)
(*                                                                         *)
(* A phase number is kept in tenths: 10 is phase "1", 21 is phase "2.1".   *)
(* The files under .planning/ are the shared state: the roadmap, the phase *)
(* directories, the usage ledger and the PID lock file.  Every dispatcher  *)
(* run (one cron tick) is a process; every phase worker of a batch is a    *)
(* thread of its run.  Each step below is one file-system call or one      *)
(* agent subprocess of the code, so that the interleavings of the model    *)
(* are the interleavings the operating system allows.                      *)
(***************************************************************************)
EXTENDS Integers, Sequences, FiniteSets, TLC

VARIABLES
    roadmap,        \* .planning/ROADMAP.md: <<>> when unreadable, else <<rows>>
    dirs,           \* .planning/phases/: padded prefix -> contents of the directory
    lock,           \* .planning/gsd-cron.lock
    ledger,         \* .planning/logs/usage.json: the entries
    max_parallel,   \* run(.., max_parallel, ..)
    weekly_budget,  \* run(.., weekly_budget): <<>> for None, <<b>> for Some(b)
    pc,             \* position of every dispatcher run
    content,        \* acquire_lock: what the run read from the lock file
    guard,          \* the run holds a LockGuard (_lock is alive)
    ready,          \* run: `ready` of the current iteration
    batch,          \* run: `batch` of the current iteration
    workers,        \* execute_batch: the threads of the current batch
    results,        \* execute_batch: the shared `results` vector
    trail,          \* history: what each run has done so far
    calls,          \* history: the agent invocations made so far
    call_cap,       \* the agent invocations the model follows
    fn_in,          \* argument of a function applied in isolation
    fn_out          \* its result

vars == <<roadmap, dirs, lock, ledger, max_parallel, weekly_budget, pc, content,
          guard, ready, batch, workers, results, trail, calls, call_cap,
          fn_in, fn_out>>

\* ------------------------------------------------------------------ bounds
NumRuns == 2            \* dispatcher runs (cron ticks) that may overlap
MaxParallel == 2        \* largest max_parallel argument tried
LiveCalls == 8          \* agent invocations a run may make when it is let run to its end
MaxCalls == 4           \* agent invocations followed, one tick at a time
OverlapCalls == 2       \* agent invocations followed, ticks overlapping
Budget == 2             \* the weekly budget tried, in cost units
MaxCost == 1            \* largest cost one agent invocation reports
MaxPhases == 3          \* rows of a roadmap given to the readiness engine alone
MaxLines == 3           \* lines of agent output given to the cost parser alone
MaxEntries == 3         \* entries of a usage.json given to the ledger functions alone
MaxSegments == 3        \* jobs and project blocks of a crontab
MaxOps == 2             \* install and remove commands run one after the other
MaxCols == 2            \* columns after the name in a row of the progress table
UMax == 200             \* the largest number the model's u32 holds

Runs == 1..NumRuns

\* ------------------------------------------------------------- sequences
Range(s) == {s[i] : i \in DOMAIN s}

Min(a, b) == IF a <= b THEN a ELSE b

Take(s, n) == SubSeq(s, 1, Min(n, Len(s)))

IsPrefix(s, t) == Len(s) <= Len(t) /\ SubSeq(t, 1, Len(s)) = s


\* --------------------------------------------------- parser.rs: PhaseNumber
is_decimal(n) == n % 10 # 0

parent_integer(n) == n \div 10

\* "{:02}" of the integer part, and ".{}" of the tenth for a decimal number
padded(n) == IF is_decimal(n) THEN <<n \div 10, n % 10>> ELSE <<n \div 10>>

\* "{}" of the f64 for a decimal number, of the u32 otherwise
display(n) == IF is_decimal(n) THEN <<"d", n \div 10, n % 10>> ELSE <<"d", n \div 10>>

\* PhaseNumber(x as f64) of an integer x
FromInteger(x) == x * 10

\* ------------------------------------------- parser.rs: artifact inspector
\* A phase directory holds, for its own padded prefix: whether a plan file is
\* present, whether some plan says autonomous: false, whether the context file
\* is present, and the status word of the verification file ("none": no file,
\* no frontmatter or no status line).
has_plan_files(dir) == dir.plans

has_non_autonomous_plan(dir) == dir.plans /\ dir.nonauto

has_context_file(dir) == dir.context

has_passing_verification(dir) == dir.verif = "passed"

\* the context file is looked at before the plan files
determine_schedulability_context_first(phase, phase_dirs) ==
    IF phase.status = "Complete" THEN "AlreadyComplete"
    ELSE IF phase.status = "Deferred" THEN "NeedsDiscussionOrPlanning"
    ELSE IF padded(phase.number) \notin DOMAIN phase_dirs THEN "NeedsDiscussionOrPlanning"
    ELSE LET dir == phase_dirs[padded(phase.number)] IN
         IF has_context_file(dir) THEN "NeedsPlanning"
         ELSE IF has_plan_files(dir)
         THEN IF has_non_autonomous_plan(dir) THEN "NeedsHuman" ELSE "Schedulable"
         ELSE "NeedsDiscussionOrPlanning"

\* parser.rs: determine_schedulability, the value it assigns
determine_schedulability(phase, phase_dirs) ==
    IF phase.status = "Complete" THEN "AlreadyComplete"
    ELSE IF phase.status = "Deferred" THEN "NeedsDiscussionOrPlanning"
    ELSE IF padded(phase.number) \notin DOMAIN phase_dirs THEN "NeedsDiscussionOrPlanning"
    ELSE LET dir == phase_dirs[padded(phase.number)] IN
         IF has_plan_files(dir)
         THEN IF has_non_autonomous_plan(dir) THEN "NeedsHuman" ELSE "Schedulable"
         ELSE IF has_context_file(dir) THEN "NeedsPlanning"
         ELSE "NeedsDiscussionOrPlanning"

\* run: parse_roadmap's rows, each classified (for phase in &mut phases ...)
Classify(rows, phase_dirs) ==
    [i \in DOMAIN rows |->
        [number |-> rows[i].number, status |-> rows[i].status,
         schedulability |-> determine_schedulability(rows[i], phase_dirs)]]

\* --------------------------------------------- runner.rs: dependency resolver
\* all_phases.iter().find(|p| (p.number.0 - phase_val).abs() < 0.001)
FindPhase(phase_val, all_phases) ==
    LET hits == {i \in DOMAIN all_phases : all_phases[i].number = phase_val} IN
    IF hits = {} THEN 0 ELSE CHOOSE i \in hits : \A j \in hits : i <= j

\* the roadmap alone says whether a phase is done
is_phase_complete_only(phase_val, all_phases, phase_dirs) ==
    LET i == FindPhase(phase_val, all_phases) IN
    i # 0 /\ all_phases[i].status = "Complete"

is_phase_verified_or_complete(phase_val, all_phases, phase_dirs) ==
    LET i == FindPhase(phase_val, all_phases) IN
    IF i # 0 /\ all_phases[i].status = "Complete" THEN TRUE
    ELSE IF padded(phase_val) \in DOMAIN phase_dirs
            /\ has_passing_verification(phase_dirs[padded(phase_val)]) THEN TRUE
    ELSE FALSE

\* decimal phases count as predecessors too
PredecessorsAny(current, all_phases) ==
    {all_phases[i].number : i \in {j \in DOMAIN all_phases :
        all_phases[j].number < current}}

\* int_phases, sorted and deduplicated, then .filter(n < current).last()
Predecessors(current, all_phases) ==
    {all_phases[i].number : i \in {j \in DOMAIN all_phases :
        ~is_decimal(all_phases[j].number) /\ all_phases[j].number < current}}

\* sibling decimal phases run one after the other: X.k waits for the greatest
\* lower X.j of the list as well as for X
is_dependency_met_chain(phase_num, all_phases, phase_dirs) ==
    IF is_decimal(phase_num)
    THEN LET elder == {all_phases[i].number : i \in {j \in DOMAIN all_phases :
                          /\ is_decimal(all_phases[j].number)
                          /\ parent_integer(all_phases[j].number) = parent_integer(phase_num)
                          /\ all_phases[j].number < phase_num}}
         IN /\ is_phase_verified_or_complete(FromInteger(parent_integer(phase_num)),
                                             all_phases, phase_dirs)
            /\ \A n \in elder : is_phase_verified_or_complete(n, all_phases, phase_dirs)
    ELSE LET before == Predecessors(phase_num, all_phases) IN
         IF before = {} THEN TRUE
         ELSE is_phase_verified_or_complete(
                  CHOOSE n \in before : \A m \in before : m <= n,
                  all_phases, phase_dirs)

is_dependency_met(phase_num, all_phases, phase_dirs) ==
    IF is_decimal(phase_num)
    THEN is_phase_verified_or_complete(FromInteger(parent_integer(phase_num)),
                                       all_phases, phase_dirs)
    ELSE LET before == Predecessors(phase_num, all_phases) IN
         IF before = {} THEN TRUE
         ELSE is_phase_verified_or_complete(
                  CHOOSE n \in before : \A m \in before : m <= n,
                  all_phases, phase_dirs)

\* ------------------------------------------------ runner.rs: readiness engine
\* ready.sort_by(number): a stable sort, as insertion after the last element
\* that is not greater
RECURSIVE InsertByNumber(_, _)
InsertByNumber(sorted, x) ==
    IF sorted = <<>> THEN <<x>>
    ELSE IF x.phase.number < sorted[1].phase.number THEN <<x>> \o sorted
    ELSE <<sorted[1]>> \o InsertByNumber(Tail(sorted), x)

RECURSIVE SortByNumber(_)
SortByNumber(s) ==
    IF s = <<>> THEN <<>>
    ELSE InsertByNumber(SortByNumber(SubSeq(s, 1, Len(s) - 1)), s[Len(s)])

\* the check of the verification file is left out
ReadyEntryUnverified(phase, phases, phase_dirs) ==
    IF phase.schedulability \notin {"Schedulable", "NeedsPlanning"} THEN <<>>
    ELSE IF ~is_dependency_met(phase.number, phases, phase_dirs) THEN <<>>
    ELSE <<[phase |-> phase,
            action |-> IF phase.schedulability = "Schedulable"
                       THEN "Execute" ELSE "PlanAndExecute"]>>

\* a plan that asks for a human is executed like any other plan
ReadyEntryHuman(phase, phases, phase_dirs) ==
    IF phase.schedulability = "AlreadyComplete" THEN <<>>
    ELSE IF padded(phase.number) \in DOMAIN phase_dirs
            /\ has_passing_verification(phase_dirs[padded(phase.number)]) THEN <<>>
    ELSE IF phase.schedulability \notin {"Schedulable", "NeedsPlanning", "NeedsHuman"} THEN <<>>
    ELSE IF ~is_dependency_met(phase.number, phases, phase_dirs) THEN <<>>
    ELSE <<[phase |-> phase,
            action |-> IF phase.schedulability = "NeedsPlanning"
                       THEN "PlanAndExecute" ELSE "Execute"]>>

\* the body of `for phase in phases`: the entries the phase adds to `ready`
ReadyEntry(phase, phases, phase_dirs) ==
    IF phase.schedulability = "AlreadyComplete" THEN <<>>
    ELSE IF padded(phase.number) \in DOMAIN phase_dirs
            /\ has_passing_verification(phase_dirs[padded(phase.number)]) THEN <<>>
    ELSE IF phase.schedulability \notin {"Schedulable", "NeedsPlanning"} THEN <<>>
    ELSE IF ~is_dependency_met(phase.number, phases, phase_dirs) THEN <<>>
    ELSE <<[phase |-> phase,
            action |-> IF phase.schedulability = "Schedulable"
                       THEN "Execute" ELSE "PlanAndExecute"]>>

RECURSIVE ReadyLoop(_, _, _)
ReadyLoop(i, phases, phase_dirs) ==
    IF i > Len(phases) THEN <<>>
    ELSE ReadyEntry(phases[i], phases, phase_dirs) \o ReadyLoop(i + 1, phases, phase_dirs)

find_ready_phases(phases, phase_dirs) == SortByNumber(ReadyLoop(1, phases, phase_dirs))


\* ------------------------------------------------- runner.rs: running window
\* A window argument is <<>> (None) or <<parts>>, parts being what split('-')
\* gives; a part is <<hour, minute>> as written, or <<>> when it is not of the
\* form %H:%M at all.  A time of day is in minutes.
ValidTime(part) == Len(part) = 2 /\ part[1] \in 0..23 /\ part[2] \in 0..59

\* <<>> for Err, <<start, end>> for Ok
parse_window(parts) ==
    IF Len(parts) # 2 THEN <<>>
    ELSE IF ~ValidTime(parts[1]) \/ ~ValidTime(parts[2]) THEN <<>>
    ELSE <<parts[1][1] * 60 + parts[1][2], parts[2][1] * 60 + parts[2][2]>>

\* the end of the window counts as inside
is_within_window_closed(window, now) ==
    IF window = <<>> THEN TRUE
    ELSE LET pair == parse_window(window[1]) IN
         IF pair = <<>> THEN FALSE
         ELSE IF pair[1] > pair[2] THEN now >= pair[1] \/ now <= pair[2]
         ELSE now >= pair[1] /\ now <= pair[2]

\* a window that does not parse restricts nothing
is_within_window_failopen(window, now) ==
    IF window = <<>> THEN TRUE
    ELSE LET pair == parse_window(window[1]) IN
         IF pair = <<>> THEN TRUE
         ELSE IF pair[1] > pair[2] THEN now >= pair[1] \/ now < pair[2]
         ELSE now >= pair[1] /\ now < pair[2]

is_within_window(window, now) ==
    IF window = <<>> THEN TRUE
    ELSE LET pair == parse_window(window[1]) IN
         IF pair = <<>> THEN FALSE
         ELSE IF pair[1] > pair[2] THEN now >= pair[1] \/ now < pair[2]
         ELSE now >= pair[1] /\ now < pair[2]

\* ------------------------------------------------------ runner.rs: cost ledger
\* A date is <<day>> (a day number, day 0 a Monday) or <<>> when the string
\* does not parse as %Y-%m-%d.
Today == 10

UsageEntry(phase, action, cost_usd) ==
    [date |-> <<Today>>, phase |-> phase, action |-> action, cost_usd |-> cost_usd]

\* every entry counts, whatever its date
RECURSIVE weekly_spend_all(_)
weekly_spend_all(entries) ==
    IF entries = <<>> THEN 0
    ELSE entries[1].cost_usd + weekly_spend_all(Tail(entries))

RECURSIVE weekly_spend(_)
weekly_spend(entries) ==
    IF entries = <<>> THEN 0
    ELSE LET monday == Today - (Today % 7)
             sunday == monday + 6
             e == entries[1]
             counted == e.date # <<>> /\ e.date[1] >= monday /\ e.date[1] <= sunday
         IN (IF counted THEN e.cost_usd ELSE 0) + weekly_spend(Tail(entries))

\* usage.json is <<"missing">>, <<"garbage">> (not JSON) or <<"json", objects>>,
\* the objects of its "entries" array; an object is the sequence of its
\* <<key, value>> members.  serde writes the members of a UsageEntry in the
\* order of the struct's fields.
to_json(e) ==
    << <<"date", e.date>>, <<"phase", e.phase>>, <<"action", e.action>>,
       <<"cost_usd", e.cost_usd>> >>

HasField(obj, key) == \E i \in DOMAIN obj : obj[i][1] = key

Field(obj, key) == obj[CHOOSE i \in DOMAIN obj : obj[i][1] = key][2]

\* Deserialize for UsageEntry: every field is required, other members are ignored
Deserializes(obj) ==
    \A key \in {"date", "phase", "action", "cost_usd"} : HasField(obj, key)

from_json(obj) ==
    [date |-> Field(obj, "date"), phase |-> Field(obj, "phase"),
     action |-> Field(obj, "action"), cost_usd |-> Field(obj, "cost_usd")]

\* a file that is missing or does not deserialize reads as the empty ledger
read_ledger(file) ==
    IF file[1] = "json" /\ \A i \in DOMAIN file[2] : Deserializes(file[2][i])
    THEN [i \in DOMAIN file[2] |-> from_json(file[2][i])]
    ELSE <<>>

\* the content of usage.json after write_ledger
write_ledger(entries) == <<"json", [i \in DOMAIN entries |-> to_json(entries[i])]>>

\* the file holds the new entry alone
record_cost_overwrite(file, phase, action, cost_usd) ==
    write_ledger(<<UsageEntry(phase, action, cost_usd)>>)

\* the content of usage.json after record_cost on `file`
record_cost(file, phase, action, cost_usd) ==
    write_ledger(Append(read_ledger(file), UsageEntry(phase, action, cost_usd)))

\* is_budget_exhausted on the ledger as read
is_budget_exhausted(entries, budget) == weekly_spend(entries) >= budget

\* the budget is never looked at
BudgetStopsNever(entries) == FALSE

BudgetStops(entries) ==
    weekly_budget # <<>> /\ is_budget_exhausted(entries, weekly_budget[1])

\* ------------------------------------------------------ runner.rs: lock manager
LockAbsent == <<>>
LockJunk == <<"junk">>
LockPid(n) == <<"pid", n>>

\* a process of an earlier, crashed dispatcher, and a live process that is no
\* dispatcher of this model
StalePid == NumRuns + 1
ForeignPid == NumRuns + 2

\* `kill -0 pid` succeeds
Alive(pid) == pid = ForeignPid \/ (pid \in Runs /\ pc[pid] \notin {"idle", "done"})

\* -------------------------------------------------------- runner.rs: lifecycle
\* A worker keeps, as history, the prompts it gave the agent and whether each
\* invocation exited zero.
\* the agent invocation the lifecycle starts with, and the ledger label of a stage
FirstPrompt(action) == IF action = "PlanAndExecute" THEN "plan-phase" ELSE "execute-phase"

\* every stage is entered in the ledger as an execution
CostLabelFlat(action, stage) == "execute"

CostLabel(action, stage) ==
    IF stage = "verify" THEN "verify"
    ELSE IF action = "PlanAndExecute" THEN "plan" ELSE "execute"

Worker(entry) ==
    [phase |-> entry.phase.number, action |-> entry.action, pc |-> "run",
     stage |-> "first", prompts |-> <<>>, exits |-> <<>>, success |-> TRUE,
     cost_usd |-> 0, snap |-> <<>>]

\* an unreadable roadmap ends the process at once, no destructor runs
LeaveLoopExit(reason) == IF reason = "unreadable" THEN "done" ELSE "drop"

\* run: what follows a `break` of the main loop: the end of run, where _lock drops
LeaveLoop(reason) == "drop"

\* the whole ready set is launched
TakeBatchAll(rdy, n) == rdy

\* nothing is launched
TakeBatchNone(rdy, n) == <<>>

\* run: let batch = ready.into_iter().take(max_parallel)
TakeBatch(rdy, n) == Take(rdy, n)


\* --------------------------------------------------------------- projects tried
Dir(plans, nonauto, context, verif) ==
    [plans |-> plans, nonauto |-> nonauto, context |-> context, verif |-> verif]

Row(number, status) == [number |-> number, status |-> status]

PlanDir == Dir(TRUE, FALSE, FALSE, "none")
ContextDir == Dir(FALSE, FALSE, TRUE, "none")
HumanDir == Dir(TRUE, TRUE, FALSE, "none")

\* roadmap: <<>> when ROADMAP.md cannot be read, <<rows>> otherwise
Projects ==
    { \* 1 complete, 2 planned, 3 with a context file only
      [roadmap |-> <<<<Row(10, "Complete"), Row(20, "NotStarted"), Row(30, "InProgress")>>>>,
       dirs |-> (<<2>> :> PlanDir) @@ (<<3>> :> ContextDir)],
      \* sibling decimals next to the following integer phase
      [roadmap |-> <<<<Row(10, "Complete"), Row(20, "NotStarted"), Row(12, "NotStarted"),
                       Row(11, "NotStarted")>>>>,
       dirs |-> (<<1, 1>> :> PlanDir) @@ (<<1, 2>> :> PlanDir) @@ (<<2>> :> ContextDir)],
      \* a roadmap that repeats a row
      [roadmap |-> <<<<Row(10, "Complete"), Row(20, "NotStarted"), Row(20, "NotStarted")>>>>,
       dirs |-> (<<2>> :> PlanDir)],
      \* nothing to run: a plan for a human, a deferred phase
      [roadmap |-> <<<<Row(10, "NotStarted"), Row(20, "Deferred")>>>>,
       dirs |-> (<<1>> :> HumanDir) @@ (<<2>> :> PlanDir)],
      \* no table row parses
      [roadmap |-> <<<<>>>>, dirs |-> (<<1>> :> PlanDir)],
      \* ROADMAP.md unreadable
      [roadmap |-> <<>>, dirs |-> (<<1>> :> PlanDir)] }

SmallProjects ==
    {proj \in Projects :
        proj.roadmap # <<>> => \A i \in DOMAIN proj.roadmap[1] :
            ~is_decimal(proj.roadmap[1][i].number)
            /\ \A j \in DOMAIN proj.roadmap[1] :
                 i # j => proj.roadmap[1][i].number # proj.roadmap[1][j].number}

\* the ledger a run finds: empty, or with what an earlier run of the week recorded
InitLedgers ==
    {<<>>, <<[date |-> <<Today - 1>>, phase |-> display(10), action |-> "execute",
              cost_usd |-> MaxCost]>>}

InitLocks == {LockAbsent, LockJunk, LockPid(StalePid), LockPid(ForeignPid)}

WindowArgs ==
    { <<>>,
      << <<<<9, 0>>, <<17, 0>>>> >>,
      << <<<<23, 0>>, <<5, 0>>>> >>,
      << <<<<9, 0>>, <<25, 0>>>> >>,
      << <<<<9, 0>>>> >> }

Clock == {0, 90, 540, 720, 1020, 1380}

\* acquired: acquire_lock gave Some; invoked: the run started an agent; exit: why
\* run returned; verified: the phases that ended Verified in the last batch joined;
\* ever: the phases that ended Verified in any batch of the run; iterations: how
\* many times the body of the main loop was entered
NoTrail ==
    [acquired |-> FALSE, invoked |-> FALSE, exit |-> "none", verified |-> {}, ever |-> {},
     iterations |-> 0]

\* the state before any run starts; `ticks` are the runs cron will start
InitRun(projects, locks, ledgers, parallels, ticks, cap) ==
    /\ \E proj \in projects : roadmap = proj.roadmap /\ dirs = proj.dirs
    /\ lock \in locks
    /\ ledger \in ledgers
    /\ max_parallel \in parallels
    /\ weekly_budget \in {<<>>, <<Budget>>}
    /\ pc = [p \in Runs |-> IF p \in ticks THEN "idle" ELSE "done"]
    /\ content = [p \in Runs |-> 0]
    /\ guard = [p \in Runs |-> FALSE]
    /\ ready = [p \in Runs |-> <<>>]
    /\ batch = [p \in Runs |-> <<>>]
    /\ workers = [p \in Runs |-> <<>>]
    /\ results = [p \in Runs |-> <<>>]
    /\ trail = [p \in Runs |-> NoTrail]
    /\ calls = 0
    /\ call_cap = cap

InitWith(projects, locks, ledgers, parallels, ticks, cap) ==
    /\ InitRun(projects, locks, ledgers, parallels, ticks, cap)
    /\ fn_in = <<>>
    /\ fn_out = <<>>

\* overlapping cron ticks on a project whose batches hold one phase
Init == InitWith(SmallProjects, InitLocks, {<<>>}, {1}, Runs, OverlapCalls)

\* one cron tick at a time, on every project
InitSolo == InitWith(Projects, InitLocks, InitLedgers, 0..MaxParallel, {1}, MaxCalls)

files == <<roadmap, dirs, lock, ledger>>
args == <<max_parallel, weekly_budget>>
locals == <<content, guard, ready, batch, workers, results>>
pure == <<calls, call_cap, fn_in, fn_out>>

Return(p, reason) ==
    /\ pc' = [pc EXCEPT ![p] = "done"]
    /\ trail' = [trail EXCEPT ![p].exit = reason]

\* run, lines 205-211: the window check
WindowGate(p, window, now) ==
    IF ~is_within_window(window, now)
    THEN Return(p, "window")
    ELSE pc' = [pc EXCEPT ![p] = "budget"] /\ UNCHANGED trail

\* cron starts the ticks one after the other
Start(p) ==
    /\ pc[p] = "idle"
    /\ \A q \in Runs : q < p => pc[q] # "idle"
    /\ \E window \in WindowArgs, now \in Clock : WindowGate(p, window, now)
    /\ UNCHANGED <<files, args, locals, pure>>

\* run, lines 213-217: the budget check on entry
EntryBudget(p) ==
    /\ pc[p] = "budget"
    /\ IF BudgetStops(ledger)
       THEN Return(p, "budget")
       ELSE pc' = [pc EXCEPT ![p] = "lock_exists"] /\ UNCHANGED trail
    /\ UNCHANGED <<files, args, locals, pure>>

\* acquire_lock: lock_path.exists()
LockExists(p) ==
    /\ pc[p] = "lock_exists"
    /\ pc' = [pc EXCEPT ![p] = IF lock # LockAbsent THEN "lock_read" ELSE "lock_write"]
    /\ UNCHANGED <<files, args, locals, trail, pure>>

\* acquire_lock: read_to_string and parse::<u32>; a file that cannot be read or
\* holds no number is left to be overwritten
LockRead(p) ==
    /\ pc[p] = "lock_read"
    /\ IF lock # LockAbsent /\ lock # LockJunk
       THEN /\ content' = [content EXCEPT ![p] = lock[2]]
            /\ pc' = [pc EXCEPT ![p] = "lock_probe"]
       ELSE /\ pc' = [pc EXCEPT ![p] = "lock_write"]
            /\ UNCHANGED content
    /\ UNCHANGED <<files, args, guard, ready, batch, workers, results, trail, pure>>

\* a lock file that holds any PID counts as held
AfterProbeHeld(alive) == "done"

\* the lock of a live process is taken like a stale one
AfterProbeSteal(alive) == "lock_remove"

\* acquire_lock: the match on the status of `kill -0 pid`
AfterProbe(alive) == IF alive THEN "done" ELSE "lock_remove"

\* acquire_lock: kill -0 pid; run returns when acquire_lock gives None
LockProbe(p) ==
    /\ pc[p] = "lock_probe"
    /\ LET alive == Alive(content[p]) IN
         /\ pc' = [pc EXCEPT ![p] = AfterProbe(alive)]
         /\ trail' = [trail EXCEPT ![p].exit = IF AfterProbe(alive) = "done"
                                               THEN "locked" ELSE @]
    /\ UNCHANGED <<files, args, locals, pure>>

\* acquire_lock: remove_file of the stale lock
LockRemove(p) ==
    /\ pc[p] = "lock_remove"
    /\ lock' = LockAbsent
    /\ pc' = [pc EXCEPT ![p] = "lock_write"]
    /\ UNCHANGED <<roadmap, dirs, ledger, args, locals, trail, pure>>

\* acquire_lock: fs::write of the own PID, Some(LockGuard)
LockWrite(p) ==
    /\ pc[p] = "lock_write"
    /\ lock' = LockPid(p)
    /\ guard' = [guard EXCEPT ![p] = TRUE]
    /\ trail' = [trail EXCEPT ![p].acquired = TRUE]
    /\ pc' = [pc EXCEPT ![p] = "loop"]
    /\ UNCHANGED <<roadmap, dirs, ledger, args, content, ready, batch, workers, results, pure>>

Break(p, reason) ==
    /\ pc' = [pc EXCEPT ![p] = LeaveLoop(reason)]
    /\ trail' = [trail EXCEPT ![p].exit = reason]

\* run, lines 232-237: the budget check of an iteration
LoopBudget(p) ==
    /\ pc[p] = "loop"
    /\ IF BudgetStops(ledger)
       THEN /\ pc' = [pc EXCEPT ![p] = LeaveLoop("budget")]
            /\ trail' = [trail EXCEPT ![p].exit = "budget", ![p].iterations = @ + 1]
       ELSE /\ pc' = [pc EXCEPT ![p] = "iterate"]
            /\ trail' = [trail EXCEPT ![p].iterations = @ + 1]
    /\ UNCHANGED <<files, args, locals, pure>>

\* run, lines 239-287: reparse, classify, find the ready phases, launch the batch
Iterate(p) ==
    /\ pc[p] = "iterate"
    /\ IF roadmap = <<>> THEN Break(p, "unreadable") /\ UNCHANGED <<ready, batch, workers>>
       ELSE IF roadmap[1] = <<>> THEN Break(p, "empty") /\ UNCHANGED <<ready, batch, workers>>
       ELSE LET phases == Classify(roadmap[1], dirs)
                rdy == find_ready_phases(phases, dirs)
                bat == TakeBatch(rdy, max_parallel)
            IN IF rdy = <<>>
               THEN Break(p, "complete") /\ UNCHANGED <<ready, batch, workers>>
               ELSE /\ ready' = [ready EXCEPT ![p] = rdy]
                    /\ batch' = [batch EXCEPT ![p] = bat]
                    /\ workers' = [workers EXCEPT ![p] = [i \in DOMAIN bat |-> Worker(bat[i])]]
                    /\ pc' = [pc EXCEPT ![p] = "join"]
                    /\ UNCHANGED trail
    /\ UNCHANGED <<files, args, content, guard, results, pure>>


\* ---------------------------------------------------- runner.rs: cost parsing
\* A line of the agent's stdout, as the parser sees it: text that does not
\* begin with '{' once trimmed; a line that begins with '{' and is no JSON; a
\* JSON object whose type is not "result"; a result object with no numeric
\* total_cost_usd; a result object with the cost c.
TextLine == <<"text">>
BrokenLine == <<"broken">>
OtherLine == <<"assistant">>
BareResultLine == <<"result">>
ResultLine(c) == <<"result", c>>

\* for line in stdout.lines(): the first result line with a cost returns
RECURSIVE parse_cost_from_output(_)
parse_cost_from_output(lines) ==
    IF lines = <<>> THEN 0
    ELSE IF Len(lines[1]) = 2 THEN lines[1][2]
    ELSE parse_cost_from_output(Tail(lines))

\* what an agent invocation that exits zero may leave in the directory of the
\* phase it works on; a status other than passed stands for every verification
\* that does not pass (no file, no frontmatter, another status word)
Artifacts(prompt) ==
    IF prompt = "plan-phase" THEN {"nothing", "plan"}
    ELSE IF prompt = "verify-work" THEN {"passed", "gaps_found"}
    ELSE {"nothing"}

\* run_claude's ClaudeResult and the artifacts left: the subprocess fails (it
\* cannot be spawned or exits non-zero with no result line: cost 0), or exits
\* zero and reports its cost
AgentRuns(prompt) ==
    {[success |-> FALSE, cost_usd |-> 0, art |-> "nothing"]}
    \cup {[success |-> TRUE, cost_usd |-> MaxCost, art |-> a] : a \in Artifacts(prompt)}

AgentWrites(phase_dirs, phase, art) ==
    IF art = "nothing" \/ padded(phase) \notin DOMAIN phase_dirs THEN phase_dirs
    ELSE IF art = "plan" THEN [phase_dirs EXCEPT ![padded(phase)].plans = TRUE]
    ELSE [phase_dirs EXCEPT ![padded(phase)].verif = art]

\* a failed plan or execute stage is followed by verification all the same
AfterRecordOn(w) ==
    IF w.stage = "first"
    THEN [w EXCEPT !.pc = "run", !.stage = "verify", !.snap = <<>>, !.cost_usd = 0]
    ELSE [w EXCEPT !.pc = "conclude", !.snap = <<>>, !.cost_usd = 0]

\* run_phase_lifecycle: where the worker goes once the cost of a stage is recorded
AfterRecord(w) ==
    IF ~w.success THEN [w EXCEPT !.pc = "conclude", !.snap = <<>>, !.cost_usd = 0]
    ELSE IF w.stage = "first"
    THEN [w EXCEPT !.pc = "run", !.stage = "verify", !.snap = <<>>, !.cost_usd = 0]
    ELSE [w EXCEPT !.pc = "conclude", !.snap = <<>>, !.cost_usd = 0]

\* a verify invocation that exits zero is believed without reading the file
OutcomeTrusting(w, phase_dirs) ==
    IF ~w.success
    THEN IF w.stage = "first" THEN "ExecutionFailed" ELSE "VerificationFailed"
    ELSE "Verified"

\* run_phase_lifecycle: the PhaseOutcome returned
Outcome(w, phase_dirs) ==
    IF ~w.success
    THEN IF w.stage = "first" THEN "ExecutionFailed" ELSE "VerificationFailed"
    ELSE IF padded(w.phase) \in DOMAIN phase_dirs
            /\ has_passing_verification(phase_dirs[padded(w.phase)]) THEN "Verified"
    ELSE "VerificationFailed"

\* the agent exits zero and, asked to verify, leaves a passing verification
WellBehaved(prompt) ==
    {r \in AgentRuns(prompt) : r.success /\ (prompt = "verify-work" => r.art = "passed")}

\* run_claude: one agent subprocess, from spawn to exit; then record_cost's
\* read_ledger.  The subprocess touches the phase directories only and the read
\* touches the ledger only, so taking the two as one step loses no interleaving.
\* `well` narrows the agent to the well-behaved one.
RunClaudeBy(p, i, well) ==
    /\ pc[p] = "join"
    /\ i \in DOMAIN workers[p]
    /\ workers[p][i].pc = "run"
    /\ calls < call_cap
    /\ LET w == workers[p][i]
           prompt == IF w.stage = "first" THEN FirstPrompt(w.action) ELSE "verify-work"
       IN \E r \in IF well THEN WellBehaved(prompt) ELSE AgentRuns(prompt) :
            /\ dirs' = AgentWrites(dirs, w.phase, r.art)
            /\ workers' = [workers EXCEPT ![p][i] =
                 [w EXCEPT !.pc = "record_write", !.prompts = Append(@, prompt),
                           !.exits = Append(@, r.success),
                           !.success = r.success, !.cost_usd = r.cost_usd,
                           !.snap = ledger]]
    /\ trail' = [trail EXCEPT ![p].invoked = TRUE]
    /\ calls' = calls + 1
    /\ UNCHANGED <<roadmap, lock, ledger, args, pc, content, guard, ready, batch,
                   results, call_cap, fn_in, fn_out>>

RunClaude(p, i) == RunClaudeBy(p, i, FALSE)

\* record_cost: push and write_ledger
RecordWrite(p, i) ==
    /\ pc[p] = "join"
    /\ i \in DOMAIN workers[p]
    /\ workers[p][i].pc = "record_write"
    /\ LET w == workers[p][i] IN
         /\ ledger' = Append(w.snap,
              UsageEntry(display(w.phase), CostLabel(w.action, w.stage), w.cost_usd))
         /\ workers' = [workers EXCEPT ![p][i] = AfterRecord(w)]
    /\ UNCHANGED <<roadmap, dirs, lock, args, pc, content, guard, ready, batch,
                   results, trail, pure>>

\* run_phase_lifecycle returns; execute_batch: results.lock().unwrap().push(..)
Conclude(p, i) ==
    /\ pc[p] = "join"
    /\ i \in DOMAIN workers[p]
    /\ workers[p][i].pc = "conclude"
    /\ LET w == workers[p][i]
           out == Outcome(w, dirs)
       IN /\ workers' = [workers EXCEPT ![p][i] = [w EXCEPT !.pc = "exit"]]
          /\ results' = [results EXCEPT ![p] = Append(@, [phase |-> w.phase, outcome |-> out])]
    /\ UNCHANGED <<files, args, pc, content, guard, ready, batch, trail, pure>>

\* the batch returns as soon as one worker has finished
AnyJoined(ws) == \E i \in DOMAIN ws : ws[i].pc = "exit"

\* execute_batch: for handle in handles { handle.join() }
AllJoined(ws) == \A i \in DOMAIN ws : ws[i].pc = "exit"

\* the loop goes on whenever the batch returned an outcome
any_finished(outcomes) == outcomes # <<>>

\* run: any_verified once the outcomes have been gone through
any_verified(outcomes) == \E i \in DOMAIN outcomes : outcomes[i].outcome = "Verified"

\* execute_batch: every handle joined; run, lines 289-311
Join(p) ==
    /\ pc[p] = "join"
    /\ AllJoined(workers[p])
    /\ IF any_verified(results[p])
       THEN /\ pc' = [pc EXCEPT ![p] = "loop"]
            /\ LET now_verified == {results[p][i].phase : i \in {j \in DOMAIN results[p] :
                                        results[p][j].outcome = "Verified"}}
               IN trail' = [trail EXCEPT ![p].verified = now_verified,
                                         ![p].ever = @ \cup now_verified]
       ELSE /\ pc' = [pc EXCEPT ![p] = LeaveLoop("noprogress")]
            /\ trail' = [trail EXCEPT ![p].exit = "noprogress", ![p].verified = {}]
    /\ ready' = [ready EXCEPT ![p] = <<>>]
    /\ batch' = [batch EXCEPT ![p] = <<>>]
    /\ workers' = [workers EXCEPT ![p] = <<>>]
    /\ results' = [results EXCEPT ![p] = <<>>]
    /\ UNCHANGED <<files, args, content, guard, pure>>

\* LockGuard::drop at the end of run
Release(p) ==
    /\ pc[p] = "drop"
    /\ lock' = LockAbsent
    /\ guard' = [guard EXCEPT ![p] = FALSE]
    /\ pc' = [pc EXCEPT ![p] = "done"]
    /\ UNCHANGED <<roadmap, dirs, ledger, args, content, ready, batch, workers,
                   results, trail, pure>>

Next ==
    \E p \in Runs :
        \/ Start(p)
        \/ EntryBudget(p)
        \/ LockExists(p)
        \/ LockRead(p)
        \/ LockProbe(p)
        \/ LockRemove(p)
        \/ LockWrite(p)
        \/ LoopBudget(p)
        \/ Iterate(p)
        \/ \E i \in 1..MaxParallel : RunClaude(p, i)
        \/ \E i \in 1..MaxParallel : RecordWrite(p, i)
        \/ \E i \in 1..MaxParallel : Conclude(p, i)
        \/ Join(p)
        \/ Release(p)

Spec == Init /\ [][Next]_vars

SpecSolo == InitSolo /\ [][Next]_vars

\* ----------------------------------------------------------------------
\* A run with no window and no budget whose agent always exits zero and, asked
\* to verify, leaves a passing verification
\* ----------------------------------------------------------------------
RunClaudeWell(p, i) == RunClaudeBy(p, i, TRUE)

\* run called with window = None
StartNoWindow(p) ==
    /\ pc[p] = "idle"
    /\ \A q \in Runs : q < p => pc[q] # "idle"
    /\ \E now \in Clock : WindowGate(p, <<>>, now)
    /\ UNCHANGED <<files, args, locals, pure>>

\* no lock, or one left behind by a dispatcher that is gone; fn_in keeps the
\* phase directories as the run found them
InitConverge ==
    /\ InitRun(Projects, {LockAbsent, LockJunk, LockPid(StalePid)}, {<<>>},
               1..MaxParallel, {1}, LiveCalls)
    /\ weekly_budget = <<>>
    /\ fn_in = [dirs |-> dirs]
    /\ fn_out = <<>>

NextConverge ==
    \E p \in Runs :
        \/ StartNoWindow(p)
        \/ EntryBudget(p)
        \/ LockExists(p)
        \/ LockRead(p)
        \/ LockProbe(p)
        \/ LockRemove(p)
        \/ LockWrite(p)
        \/ LoopBudget(p)
        \/ Iterate(p)
        \/ \E i \in 1..MaxParallel : RunClaudeWell(p, i)
        \/ \E i \in 1..MaxParallel : RecordWrite(p, i)
        \/ \E i \in 1..MaxParallel : Conclude(p, i)
        \/ Join(p)
        \/ Release(p)

SpecConverge == InitConverge /\ [][NextConverge]_vars /\ WF_vars(NextConverge)

\* projects whose roadmap lists no phase number twice: a chain of integer
\* phases, two sibling decimals, nothing to run, ROADMAP.md unreadable
LiveProjects ==
    { [roadmap |-> <<<<Row(10, "Complete"), Row(20, "NotStarted"), Row(30, "InProgress")>>>>,
       dirs |-> (<<2>> :> PlanDir) @@ (<<3>> :> ContextDir)],
      [roadmap |-> <<<<Row(10, "Complete"), Row(12, "NotStarted"), Row(11, "NotStarted")>>>>,
       dirs |-> (<<1, 1>> :> PlanDir) @@ (<<1, 2>> :> ContextDir)],
      [roadmap |-> <<<<Row(10, "NotStarted"), Row(20, "Deferred")>>>>,
       dirs |-> (<<1>> :> HumanDir) @@ (<<2>> :> PlanDir)],
      [roadmap |-> <<>>, dirs |-> (<<1>> :> PlanDir)] }

\* one cron tick that is let run to its end: every step that can be taken is
\* taken in the end, an agent subprocess that was started exits
InitLive == InitWith(LiveProjects, InitLocks, {<<>>}, 0..MaxParallel, {1}, LiveCalls)

SpecLive == InitLive /\ [][Next]_vars /\ WF_vars(Next)


\* ======================================================================
\* The readiness engine applied in isolation
\* ======================================================================

\* no dispatcher runs: the files and the runs stay as they are
Quiet ==
    /\ roadmap = <<>>
    /\ dirs = <<>>
    /\ lock = LockAbsent
    /\ ledger = <<>>
    /\ max_parallel = 0
    /\ weekly_budget = <<>>
    /\ pc = [p \in Runs |-> "done"]
    /\ content = [p \in Runs |-> 0]
    /\ guard = [p \in Runs |-> FALSE]
    /\ ready = [p \in Runs |-> <<>>]
    /\ batch = [p \in Runs |-> <<>>]
    /\ workers = [p \in Runs |-> <<>>]
    /\ results = [p \in Runs |-> <<>>]
    /\ trail = [p \in Runs |-> NoTrail]
    /\ calls = 0
    /\ call_cap = 0

dispatcher == <<files, args, pc, locals, trail, calls, call_cap>>

ReadyNumbers == {10, 11, 20}

ReadyRows == {Row(n, st) : n \in ReadyNumbers, st \in {"NotStarted", "Complete"}}

RowLists == UNION {[1..n -> ReadyRows] : n \in 0..MaxPhases}

DirKinds ==
    {PlanDir, ContextDir, HumanDir, Dir(TRUE, FALSE, FALSE, "passed"),
     Dir(FALSE, FALSE, TRUE, "gaps_found")}

\* every choice of directories for the phase numbers tried
DirMaps ==
    UNION {[{padded(n) : n \in present} -> DirKinds] : present \in SUBSET ReadyNumbers}

InitReady ==
    /\ Quiet
    /\ fn_in \in {[rows |-> rows, dirs |-> dm] : rows \in RowLists, dm \in DirMaps}
    /\ fn_out = <<>>

\* find_ready_phases on the rows as run classifies them
CallFindReady ==
    /\ fn_out = <<>>
    /\ fn_out' = <<find_ready_phases(Classify(fn_in.rows, fn_in.dirs), fn_in.dirs)>>
    /\ UNCHANGED <<dispatcher, fn_in>>

NextReady == CallFindReady

SpecReady == InitReady /\ [][NextReady]_vars

\* ------------------------------------------- runner.rs: the label of a phase
\* the dependency check is left out
readiness_label_unblocked(phase, all_phases, phase_dirs) ==
    IF padded(phase.number) \in DOMAIN phase_dirs
       /\ has_passing_verification(phase_dirs[padded(phase.number)]) THEN "VERIFIED"
    ELSE IF phase.schedulability = "AlreadyComplete" THEN "VERIFIED"
    ELSE IF phase.schedulability = "NeedsHuman" THEN "NEEDS HUMAN"
    ELSE IF phase.schedulability = "NeedsDiscussionOrPlanning" THEN "NEEDS DISCUSSION"
    ELSE IF phase.schedulability \in {"Schedulable", "NeedsPlanning"} THEN "READY"
    ELSE "BLOCKED"

readiness_label(phase, all_phases, phase_dirs) ==
    IF padded(phase.number) \in DOMAIN phase_dirs
       /\ has_passing_verification(phase_dirs[padded(phase.number)]) THEN "VERIFIED"
    ELSE IF phase.schedulability = "AlreadyComplete" THEN "VERIFIED"
    ELSE IF phase.schedulability = "NeedsHuman" THEN "NEEDS HUMAN"
    ELSE IF phase.schedulability = "NeedsDiscussionOrPlanning" THEN "NEEDS DISCUSSION"
    ELSE IF ~is_dependency_met(phase.number, all_phases, phase_dirs) THEN "BLOCKED"
    ELSE IF phase.schedulability \in {"Schedulable", "NeedsPlanning"} THEN "READY"
    ELSE "BLOCKED"

\* the status listing: the phases as classified, the ready set and the label of
\* every phase
CallReadinessLabel ==
    /\ fn_out = <<>>
    /\ LET phases == Classify(fn_in.rows, fn_in.dirs) IN
       fn_out' = [phases |-> phases,
                  ready |-> find_ready_phases(phases, fn_in.dirs),
                  labels |-> [k \in DOMAIN phases |->
                                 readiness_label(phases[k], phases, fn_in.dirs)]]
    /\ UNCHANGED <<dispatcher, fn_in>>

NextLabel == CallReadinessLabel

SpecLabel == InitReady /\ [][NextLabel]_vars

\* ======================================================================
\* The dependency resolver applied in isolation
\* ======================================================================

DepNumbers == {10, 11, 12, 20, 30}

DepRows == {Row(n, st) : n \in DepNumbers, st \in {"NotStarted", "Complete"}}

DepLists == UNION {[1..n -> DepRows] : n \in 0..MaxPhases}

\* a directory matters to the resolver by its verification file alone
DepDirKinds == {PlanDir, Dir(TRUE, FALSE, FALSE, "passed")}

DepDirMaps ==
    UNION {[{padded(n) : n \in present} -> DepDirKinds] : present \in SUBSET {10, 11, 20}}

\* the resolver is asked about a phase of the list
InitDep ==
    /\ Quiet
    /\ \E rows \in DepLists, dm \in DepDirMaps :
          \E n \in {rows[i].number : i \in DOMAIN rows} :
              fn_in = [num |-> n, rows |-> rows, dirs |-> dm]
    /\ fn_out = <<>>

\* is_dependency_met on the rows as run classifies them
CallDependencyMet ==
    /\ fn_out = <<>>
    /\ fn_out' = <<is_dependency_met(fn_in.num, Classify(fn_in.rows, fn_in.dirs),
                                     fn_in.dirs)>>
    /\ UNCHANGED <<dispatcher, fn_in>>

NextDep == CallDependencyMet

SpecDep == InitDep /\ [][NextDep]_vars

\* ======================================================================
\* The classifier applied in isolation
\* ======================================================================

\* every content of a phase directory
AllDirs ==
    {Dir(pl, na, cx, vf) : pl \in BOOLEAN, na \in BOOLEAN, cx \in BOOLEAN,
                           vf \in {"none", "passed", "gaps_found"}}

\* no phase directory at all, or the directory of one phase number
OneDirMaps == {<<>>} \cup UNION {[{padded(m)} -> AllDirs] : m \in ReadyNumbers}

InitClassify ==
    /\ Quiet
    /\ \E n \in ReadyNumbers, st \in {"NotStarted", "InProgress", "Complete", "Deferred"},
          dm \in OneDirMaps :
          fn_in = [phase |-> Row(n, st), dirs |-> dm]
    /\ fn_out = <<>>

CallDetermineSchedulability ==
    /\ fn_out = <<>>
    /\ fn_out' = <<determine_schedulability(fn_in.phase, fn_in.dirs)>>
    /\ UNCHANGED <<dispatcher, fn_in>>

NextClassify == CallDetermineSchedulability

SpecClassify == InitClassify /\ [][NextClassify]_vars

\* ======================================================================
\* The cost parser applied in isolation
\* ======================================================================

OutputLines ==
    {TextLine, BrokenLine, OtherLine, BareResultLine}
    \cup {ResultLine(c) : c \in 1..(MaxCost + 1)}

Outputs == UNION {[1..n -> OutputLines] : n \in 0..MaxLines}

InitCost ==
    /\ Quiet
    /\ \E out \in Outputs : fn_in = [stdout |-> out]
    /\ fn_out = <<>>

CallParseCost ==
    /\ fn_out = <<>>
    /\ fn_out' = <<parse_cost_from_output(fn_in.stdout)>>
    /\ UNCHANGED <<dispatcher, fn_in>>

NextCost == CallParseCost

SpecCost == InitCost /\ [][NextCost]_vars

\* ======================================================================
\* The entry of a run under a given --window argument and time of day
\* ======================================================================

WindowHours == {0, 9, 17, 23, 24}
WindowMinutes == {0, 30, 60}

\* what may stand on either side of a '-'
WindowParts == {<<>>} \cup {<<h, m>> : h \in WindowHours, m \in WindowMinutes}

\* --window arguments: none, or a string that splits into one, two or three parts
WindowStrings ==
    {<<>>}
    \cup {<< <<a>> >> : a \in WindowParts}
    \cup {<< <<a, b>> >> : a \in WindowParts, b \in WindowParts}
    \cup {<< <<a, b, a>> >> : a \in {<<9, 0>>}, b \in WindowParts}

\* the times of day around every start and end a window can have
WindowClock ==
    {t \in 0..1439 : \E a \in WindowParts :
        ValidTime(a) /\ t - (a[1] * 60 + a[2]) \in {-1, 0, 1}}

InitWindow ==
    /\ InitRun(SmallProjects, {LockAbsent}, {<<>>}, {1}, {1}, 0)
    /\ \E window \in WindowStrings, now \in WindowClock :
         fn_in = [window |-> window, now |-> now]
    /\ fn_out = <<>>

\* run, lines 205-211, with the argument and the clock reading of fn_in
EnterRun(p) ==
    /\ pc[p] = "idle"
    /\ fn_out' = <<is_within_window(fn_in.window, fn_in.now)>>
    /\ WindowGate(p, fn_in.window, fn_in.now)
    /\ UNCHANGED <<files, args, locals, calls, call_cap, fn_in>>

NextWindow == \E p \in Runs : EnterRun(p)

SpecWindow == InitWindow /\ [][NextWindow]_vars

\* ======================================================================
\* The ledger functions applied in isolation
\* ======================================================================

\* the days around the two ends of the week of Today, and a date that does
\* not parse
LedgerDates ==
    {<<>>, <<Today - (Today % 7) - 1>>, <<Today - (Today % 7)>>,
     <<Today - (Today % 7) + 6>>, <<Today - (Today % 7) + 7>>}

LedgerEntries ==
    {[date |-> d, phase |-> display(10), action |-> "plan", cost_usd |-> c] :
        d \in LedgerDates, c \in 1..(MaxCost + 1)}

\* the objects of a usage.json: entries as written, an object without its cost,
\* and an object with a member that UsageEntry does not have
LedgerObjects ==
    {to_json(e) : e \in LedgerEntries}
    \cup {SubSeq(to_json(UsageEntry(display(10), "plan", 1)), 1, 3),
          Append(to_json(UsageEntry(display(10), "plan", 1)), <<"note", <<>>>>)}

LedgerFiles ==
    {<<"missing">>, <<"garbage">>}
    \cup {<<"json", objs>> : objs \in UNION {[1..n -> LedgerObjects] : n \in 0..MaxEntries}}

InitLedger ==
    /\ Quiet
    /\ \E file \in LedgerFiles, c \in 0..MaxCost :
         fn_in = [file |-> file, phase |-> display(20), action |-> "execute",
                  cost_usd |-> c]
    /\ fn_out = <<>>

\* weekly_spend(read_ledger), record_cost, weekly_spend(read_ledger) again
CallRecordCost ==
    /\ fn_out = <<>>
    /\ LET file == record_cost(fn_in.file, fn_in.phase, fn_in.action, fn_in.cost_usd)
       IN fn_out' = [ledger |-> read_ledger(fn_in.file),
                     before |-> weekly_spend(read_ledger(fn_in.file)),
                     file |-> file,
                     after |-> weekly_spend(read_ledger(file))]
    /\ UNCHANGED <<dispatcher, fn_in>>

NextLedger == CallRecordCost

SpecLedger == InitLedger /\ [][NextLedger]_vars

\* ======================================================================
\* crontab.rs: removing a project's entries from a crontab
\* ======================================================================

\* A project path is the sequence of its characters.  A crontab line is one of
\*   begin: "# gsd-cron:<project>"
\*   entry: "<m> <h> * * * <wrapper> <n> # gsd-cron:<project> phase <n>"
\*   end:   "# gsd-cron:<project> END"
\*   job:   a line of the user's own, job number n, that names no project
\*   blank: the empty line
TagLine(project) == [kind |-> "begin", project |-> project, n |-> 0]
EntryLine(project, n) == [kind |-> "entry", project |-> project, n |-> n]
EndLine(project) == [kind |-> "end", project |-> project, n |-> 0]
JobLine(n) == [kind |-> "job", project |-> <<>>, n |-> n]
BlankLine == [kind |-> "blank", project |-> <<>>, n |-> 0]

RECURSIVE Flatten(_)
Flatten(segs) == IF segs = <<>> THEN <<>> ELSE segs[1] \o Flatten(Tail(segs))

\* A text is its lines as str::lines gives them and whether the last of them
\* is ended by a newline; the empty string has no line.
EmptyText == [lines |-> <<>>, eol |-> FALSE]

\* crontab_content.lines()
str_lines(text) == text.lines

\* result.join("\n"): a newline between the lines and none after the last, so
\* an empty last line shows as the newline that ends the line before it
join(ls) ==
    IF ls = <<>> THEN EmptyText
    ELSE IF ls[Len(ls)] = BlankLine
    THEN IF Len(ls) = 1 THEN EmptyText
         ELSE [lines |-> SubSeq(ls, 1, Len(ls) - 1), eol |-> TRUE]
    ELSE [lines |-> ls, eol |-> FALSE]

\* generate_entries: the begin tag, one line for each phase of each slot, the
\* END tag; a slot is the sequence of the phase numbers it holds
generate_entries(slots, project_path) ==
    <<TagLine(project_path)>>
    \o Flatten([i \in DOMAIN slots |->
                  [j \in DOMAIN slots[i] |-> EntryLine(project_path, slots[i][j])]])
    \o <<EndLine(project_path)>>

\* line.starts_with("# gsd-cron:" + project_str)
starts_with_tag(line, project) ==
    line.kind \in {"begin", "end"} /\ IsPrefix(project, line.project)

\* line.ends_with(" END")
ends_with_end(line) == line.kind = "end"

\* line.contains("gsd-cron:" + project_str)
contains_inline_tag(line, project) ==
    line.kind \in {"begin", "entry", "end"} /\ IsPrefix(project, line.project)

\* the loop of remove_project_entries over the lines left, with its flag
RECURSIVE RemoveLoop(_, _, _)
RemoveLoop(lines, project, skipping) ==
    IF lines = <<>> THEN <<>>
    ELSE LET line == lines[1]
             rest == Tail(lines)
         IN IF starts_with_tag(line, project)
            THEN RemoveLoop(rest, project, ~ends_with_end(line))
            ELSE IF skipping /\ contains_inline_tag(line, project)
            THEN RemoveLoop(rest, project, skipping)
            ELSE IF ~skipping
            THEN <<line>> \o RemoveLoop(rest, project, skipping)
            ELSE RemoveLoop(rest, project, skipping)

remove_project_entries(crontab_content, project_path) ==
    join(RemoveLoop(str_lines(crontab_content), project_path, FALSE))

\* two unrelated projects and one whose path continues the path of another
ProjectPaths == {<<"p">>, <<"p", "2">>, <<"q">>}

\* what a crontab is made of: the user's jobs, empty lines, installed blocks,
\* blocks whose END line was lost, and entry lines left outside any block
Segments ==
    {<<JobLine(n)>> : n \in 1..2}
    \cup {<<BlankLine>>}
    \cup {generate_entries(<<<<1>>>>, project) : project \in ProjectPaths}
    \cup {SubSeq(generate_entries(<<<<1>>>>, project), 1, 2) : project \in ProjectPaths}
    \cup {<<EntryLine(project, 1)>> : project \in ProjectPaths}

LineListsUpTo(k) == {Flatten(segs) : segs \in UNION {[1..n -> Segments] : n \in 0..k}}

LineLists == LineListsUpTo(MaxSegments)

\* the texts of the given lines, with and without a newline after the last line
TextsOf(lists) ==
    {EmptyText}
    \cup {[lines |-> ls, eol |-> TRUE] : ls \in lists \ {<<>>}}
    \cup {[lines |-> ls, eol |-> FALSE] :
            ls \in {l \in lists : l # <<>> /\ l[Len(l)] # BlankLine}}

Crontabs == TextsOf(LineLists)

InitCrontab ==
    /\ Quiet
    /\ \E crontab \in Crontabs, project \in ProjectPaths :
         fn_in = [crontab_content |-> crontab, project_path |-> project]
    /\ fn_out = <<>>

CallRemoveProjectEntries ==
    /\ fn_out = <<>>
    /\ fn_out' = <<remove_project_entries(fn_in.crontab_content, fn_in.project_path)>>
    /\ UNCHANGED <<dispatcher, fn_in>>

NextCrontab == CallRemoveProjectEntries

SpecCrontab == InitCrontab /\ [][NextCrontab]_vars

\* ======================================================================
\* crontab.rs: install and remove on the user's crontab
\* ======================================================================

\* The user's crontab is <<>> when there is none, else <<text>>.
\* read_crontab: `crontab -l`; "no crontab" reads as the empty string
read_crontab(store) == IF store = <<>> THEN EmptyText ELSE store[1]

\* write_crontab: `crontab -` stores what it is given
write_crontab(text) == <<text>>

\* cleaned.trim().is_empty()
trim_is_empty(text) == \A i \in DOMAIN text.lines : text.lines[i] = BlankLine

\* the crontab after remove(project_path)
remove(store, project_path) ==
    LET cleaned == remove_project_entries(read_crontab(store), project_path)
    IN IF trim_is_empty(cleaned) THEN <<>> ELSE write_crontab(cleaned)

\* the crontab after install(slots, project_path): the cleaned content, ended
\* by a newline unless empty, then the new entries and a newline
install(store, slots, project_path) ==
    LET cleaned == remove_project_entries(read_crontab(store), project_path)
    IN write_crontab([lines |-> cleaned.lines \o generate_entries(slots, project_path),
                      eol |-> TRUE])

\* schedules to install: no slot, one slot of one phase, two slots
SlotLists == {<<>>, <<<<1>>>>, <<<<1, 2>>, <<3>>>>}

InitialCrontabs == {<<>>} \cup {<<t>> : t \in TextsOf(LineListsUpTo(MaxSegments - 1))}

InitOps ==
    /\ Quiet
    /\ \E store \in InitialCrontabs, project \in ProjectPaths :
         /\ fn_in = [crontab |-> store, project_path |-> project]
         /\ fn_out = [crontab |-> store, ops |-> <<>>]

CallRemove ==
    /\ Len(fn_out.ops) < MaxOps
    /\ fn_out' = [crontab |-> remove(fn_out.crontab, fn_in.project_path),
                  ops |-> Append(fn_out.ops, [op |-> "remove", slots |-> <<>>])]
    /\ UNCHANGED <<dispatcher, fn_in>>

CallInstall ==
    /\ Len(fn_out.ops) < MaxOps
    /\ \E slots \in SlotLists :
         fn_out' = [crontab |-> install(fn_out.crontab, slots, fn_in.project_path),
                    ops |-> Append(fn_out.ops, [op |-> "install", slots |-> slots])]
    /\ UNCHANGED <<dispatcher, fn_in>>

NextOps == CallRemove \/ CallInstall

SpecOps == InitOps /\ [][NextOps]_vars

\* ======================================================================
\* parser.rs: the plans-complete cell of a roadmap row
\* ======================================================================

\* str::parse::<u32> of a run of digits, <<>> when the number does not fit
parse_u32(written) == IF written > UMax THEN <<>> ELSE <<written>>

\* .unwrap_or(0)
unwrap_or_0(parsed) == IF parsed = <<>> THEN 0 ELSE parsed[1]

\* A cell of a row is <<"frac", n, m>> for "n/m", <<"pct", n, 0>> for "n%" and
\* <<"text", 0, 0>> for anything else.  <<>> for None, <<(done, total)>> for Some.
parse_plans_complete(cell) ==
    IF cell[1] = "frac"
    THEN << <<unwrap_or_0(parse_u32(cell[2])), unwrap_or_0(parse_u32(cell[3]))>> >>
    ELSE IF cell[1] = "pct"
    THEN << <<unwrap_or_0(parse_u32(cell[2])), 100>> >>
    ELSE <<>>

\* parse_roadmap: the loop over the columns of one row, as far as it sets
\* plans_complete
RECURSIVE PlansCompleteLoop(_, _)
PlansCompleteLoop(cols, plans_complete) ==
    IF cols = <<>> THEN plans_complete
    ELSE LET parsed == parse_plans_complete(cols[1])
         IN PlansCompleteLoop(Tail(cols),
                              IF parsed # <<>> THEN parsed[1] ELSE plans_complete)

RowPlansComplete(cols) == PlansCompleteLoop(cols, <<0, 0>>)

\* numbers a cell may hold
Written == {0, 1, 2, 100, 150, UMax + 1}

Cells ==
    {<<"frac", n, m>> : n \in Written, m \in Written}
    \cup {<<"pct", n, 0>> : n \in Written}
    \cup {<<"text", 0, 0>>}

InitPlans ==
    /\ Quiet
    /\ \E cols \in UNION {[1..n -> Cells] : n \in 1..MaxCols} : fn_in = [cols |-> cols]
    /\ fn_out = <<>>

CallParseRow ==
    /\ fn_out = <<>>
    /\ fn_out' = <<RowPlansComplete(fn_in.cols)>>
    /\ UNCHANGED <<dispatcher, fn_in>>

NextPlans == CallParseRow

SpecPlans == InitPlans /\ [][NextPlans]_vars

\* ======================================================================
\* scheduler.rs: build_schedule
\* ======================================================================

\* A phase reference is [phase |-> the phase, idx |-> its place in the slice
\* given to build_schedule]; idx stands for the address that std::ptr::eq
\* compares.  A time of day is in seconds from midnight.
SecondsPerDay == 86400

add_minutes(time, minutes) == (time + minutes * 60) % SecondsPerDay

\* the reason build_schedule gives for skipping
SkipReason(schedulability) ==
    CASE schedulability = "AlreadyComplete" -> "Already complete"
      [] schedulability = "NeedsHuman" ->
            "Has checkpoint requiring human input (autonomous: false)"
      [] schedulability = "NeedsPlanning" ->
            "Has context but no plans yet (needs planning)"
      [] OTHER -> "No plans or context (needs discussion/planning)"

\* assign_levels: the decimal phases of `sorted` whose parent integer is n
DecimalsFor(sorted, n) ==
    LET Child(r) == is_decimal(r.phase.number) /\ parent_integer(r.phase.number) = n
    IN SelectSeq(sorted, Child)

\* assign_levels: the walk over the integer phases from the i-th on
RECURSIVE IntegerLoop(_, _, _, _, _)
IntegerLoop(int_phases, sorted, i, current_level, result) ==
    IF i > Len(int_phases) THEN result
    ELSE LET level == IF i > 1 THEN current_level + 1 ELSE current_level
             n == int_phases[i].phase.number \div 10
             dec_phases == DecimalsFor(sorted, n)
             own == <<[ref |-> int_phases[i], level |-> level]>>
         IN IF dec_phases # <<>>
            THEN IntegerLoop(int_phases, sorted, i + 1, level + 1,
                     result \o own
                     \o [j \in DOMAIN dec_phases |->
                            [ref |-> dec_phases[j], level |-> level + 1]])
            ELSE IntegerLoop(int_phases, sorted, i + 1, level, result \o own)

\* assign_levels: the level of a decimal phase whose parent was not walked
OrphanLevel(result, parent) ==
    LET below == {result[k].level + 1 : k \in
                    {k \in DOMAIN result :
                        /\ ~is_decimal(result[k].ref.phase.number)
                        /\ result[k].ref.phase.number \div 10 <= parent}}
    IN IF below = {} THEN 0 ELSE CHOOSE l \in below : \A m \in below : m <= l

\* assign_levels: the walk over the decimal phases not yet in the result
RECURSIVE OrphanLoop(_, _, _)
OrphanLoop(sorted, i, result) ==
    IF i > Len(sorted) THEN result
    ELSE LET p == sorted[i]
             already_assigned == \E k \in DOMAIN result : result[k].ref.idx = p.idx
         IN IF is_decimal(p.phase.number) /\ ~already_assigned
            THEN OrphanLoop(sorted, i + 1,
                     Append(result,
                            [ref |-> p,
                             level |-> OrphanLevel(result, parent_integer(p.phase.number))]))
            ELSE OrphanLoop(sorted, i + 1, result)

assign_levels(phases) ==
    LET sorted == SortByNumber(phases)
        Whole(r) == ~is_decimal(r.phase.number)
        int_phases == SelectSeq(sorted, Whole)
    IN OrphanLoop(sorted, 1, IntegerLoop(int_phases, sorted, 1, 0, <<>>))

\* build_schedule: the slots of the levels from `level` to max_level that hold
\* a phase; a slot keeps its level beside the time and the phases
RECURSIVE SlotLoop(_, _, _, _, _)
SlotLoop(phase_levels, level, max_level, start_time, interval_minutes) ==
    IF level > max_level THEN <<>>
    ELSE LET At(x) == x.level = level
             phases_at_level == SelectSeq(phase_levels, At)
             rest == SlotLoop(phase_levels, level + 1, max_level, start_time,
                              interval_minutes)
         IN IF phases_at_level # <<>>
            THEN <<[level |-> level,
                    time |-> add_minutes(start_time, level * interval_minutes),
                    phases |-> [j \in DOMAIN phases_at_level |->
                                   phases_at_level[j].ref.idx]]>> \o rest
            ELSE rest

build_schedule(phases, start_time, interval_minutes) ==
    LET refs == [i \in DOMAIN phases |-> [phase |-> phases[i], idx |-> i]]
        Sched(r) == r.phase.schedulability = "Schedulable"
        Skip(r) == r.phase.schedulability # "Schedulable"
        schedulable == SelectSeq(refs, Sched)
        skips == SelectSeq(refs, Skip)
        skipped == [j \in DOMAIN skips |->
                       [idx |-> skips[j].idx,
                        reason |-> SkipReason(skips[j].phase.schedulability)]]
        phase_levels == assign_levels(schedulable)
        levels == {phase_levels[k].level : k \in DOMAIN phase_levels}
        max_level == CHOOSE l \in levels : \A m \in levels : m <= l
    IN IF schedulable = <<>> THEN [slots |-> <<>>, skipped |-> skipped]
       ELSE [slots |-> SlotLoop(phase_levels, 0, max_level, start_time,
                                interval_minutes),
             skipped |-> skipped]

\* phases handed to build_schedule: classified rows, in the order of the table
SchedulePhases ==
    {[number |-> n, schedulability |-> "Schedulable"] : n \in {10, 20, 21, 22}}
    \cup {[number |-> n, schedulability |-> r] :
            n \in {10, 20},
            r \in {"AlreadyComplete", "NeedsHuman", "NeedsPlanning",
                   "NeedsDiscussionOrPlanning"}}

\* a start time and an interval that stay within the day, and ones that wrap
ScheduleArgs == {<<9 * 3600, 120>>, <<23 * 3600, 45>>}

InitSchedule ==
    /\ Quiet
    /\ \E phases \in UNION {[1..n -> SchedulePhases] : n \in 0..MaxPhases},
          a \in ScheduleArgs :
         fn_in = [phases |-> phases, start_time |-> a[1], interval_minutes |-> a[2]]
    /\ fn_out = <<>>

CallBuildSchedule ==
    /\ fn_out = <<>>
    /\ fn_out' = <<build_schedule(fn_in.phases, fn_in.start_time, fn_in.interval_minutes)>>
    /\ UNCHANGED <<dispatcher, fn_in>>

NextSchedule == CallBuildSchedule

SpecSchedule == InitSchedule /\ [][NextSchedule]_vars

\* ======================================================================
\* Properties of the dispatcher
\* ======================================================================

Holders == {p \in Runs : guard[p]}

BatchJoined(p) ==
    /\ pc[p] = "join"
    /\ workers[p] # <<>>
    /\ \A i \in DOMAIN workers[p] : workers[p][i].pc = "exit"

RECURSIVE RecordedToday(_)
RecordedToday(entries) ==
    IF entries = <<>> THEN 0
    ELSE (IF entries[1].date = <<Today>> THEN 1 ELSE 0) + RecordedToday(Tail(entries))

\* ROADMAP.md names no phase number twice
UniqueNumbers ==
    roadmap = <<>> \/ \A i \in DOMAIN roadmap[1] : \A j \in DOMAIN roadmap[1] :
        i # j => roadmap[1][i].number # roadmap[1][j].number

\* C1: at most one dispatcher run is between a successful acquire_lock and the
\* release of its lock at any time.
C1_MutualExclusion == Cardinality(Holders) <= 1

\* C2: once a batch has joined, the ledger holds one entry, recorded by this
\* run, for every agent invocation made: no worker's entry is lost.  (Stated
\* for the roadmaps whose phase numbers are unique, where the workers of a
\* batch work on different phases.)
C2_NoLostCost ==
    UniqueNumbers => \A p \in Runs : BatchJoined(p) => RecordedToday(ledger) = calls

\* C3: the ledger is append-only: every step leaves the entries present where
\* they were, and changes the ledger only by adding at the end.  (Stated for
\* the roadmaps whose phase numbers are unique.)
C3_AppendOnly == [][UniqueNumbers => IsPrefix(ledger, ledger')]_vars

\* C4: a lifecycle whose agent invocations all exit zero has invoked plan-phase,
\* execute-phase, verify-work in this order for PlanAndExecute, and
\* execute-phase, verify-work for Execute.
C4_InvocationOrder ==
    \A p \in Runs : \A i \in DOMAIN workers[p] :
        LET w == workers[p][i] IN
        (w.pc \in {"conclude", "exit"} /\ w.stage = "verify" /\ w.success)
            => w.prompts = IF w.action = "PlanAndExecute"
                           THEN <<"plan-phase", "execute-phase", "verify-work">>
                           ELSE <<"execute-phase", "verify-work">>

\* C5: whenever run returns after having acquired the lock, by any exit path
\* of the main loop, the lock file is absent.
C5_LockReleased ==
    [][\A p \in Runs :
          (guard[p] /\ pc[p] # "done" /\ pc'[p] = "done") => lock' = LockAbsent]_vars

C5_Witness ==
    \E p \in Runs, q \in Runs :
        /\ p # q
        /\ pc[p] = "done" /\ trail[p].acquired /\ trail[p].exit = "noprogress"
        /\ pc[q] = "done" /\ trail[q].acquired
        /\ lock = LockAbsent

\* C6: an acquire_lock that finds in the lock file the PID of a process that is
\* not alive, or content that is no PID, goes on to write the lock and never
\* fails; its write leaves the file holding the caller's PID, and the caller
\* holding the lock.
C6_StaleReclaimed ==
    [][\A p \in Runs :
          /\ (pc[p] = "lock_read" /\ lock = LockJunk /\ pc'[p] # pc[p])
                => pc'[p] = "lock_write"
          /\ (pc[p] = "lock_probe" /\ ~Alive(content[p]) /\ pc'[p] # pc[p])
                => pc'[p] = "lock_remove"
          /\ (pc[p] = "lock_remove" /\ pc'[p] # pc[p])
                => (pc'[p] = "lock_write" /\ lock' = LockAbsent)
          /\ (pc[p] = "lock_write" /\ pc'[p] # pc[p])
                => (lock' = LockPid(p) /\ guard'[p] /\ pc'[p] = "loop")]_vars

C6_Witness ==
    \E p \in Runs :
        /\ content[p] = StalePid
        /\ guard[p]
        /\ lock = LockPid(p)

\* C7: an acquire_lock that finds the PID of a live process fails: its run
\* returns at once, leaves the lock file and the ledger as they are, has no
\* lock to release, and has invoked no agent.
C7_LiveLockRespected ==
    /\ [][\A p \in Runs :
            (pc[p] = "lock_probe" /\ Alive(content[p]) /\ pc'[p] # pc[p])
                => (pc'[p] = "done" /\ lock' = lock /\ ledger' = ledger
                    /\ dirs' = dirs /\ ~guard'[p])]_vars
    /\ [](\A p \in Runs :
            trail[p].exit = "locked"
                => (pc[p] = "done" /\ ~trail[p].acquired /\ ~trail[p].invoked
                    /\ ~guard[p] /\ workers[p] = <<>>))

C7_Witness ==
    \E p \in Runs, q \in Runs :
        /\ p # q
        /\ trail[p].exit = "locked"
        /\ pc[p] = "done"
        /\ guard[q]
        /\ lock = LockPid(q)

\* C8: the batch of an iteration is the prefix of the ready set of length
\* min(max_parallel, |ready|), so at most max_parallel workers are launched,
\* and exactly one worker is launched per batch entry.
C8_BoundedBatch ==
    \A p \in Runs :
        pc[p] = "join" =>
            /\ Len(batch[p]) <= max_parallel
            /\ Len(batch[p]) = IF max_parallel <= Len(ready[p])
                               THEN max_parallel ELSE Len(ready[p])
            /\ \A i \in DOMAIN batch[p] : batch[p][i] = ready[p][i]
            /\ DOMAIN workers[p] = DOMAIN batch[p]
            /\ \A i \in DOMAIN batch[p] :
                 /\ workers[p][i].phase = batch[p][i].phase.number
                 /\ workers[p][i].action = batch[p][i].action

C8_Witness ==
    \E p \in Runs :
        /\ pc[p] = "join"
        /\ max_parallel = 2
        /\ Len(ready[p]) = 3
        /\ Len(workers[p]) = 2

\* C9: every phase in the dispatched batch has a phase number smaller than
\* every ready phase left out of the batch.
C9_LowestFirst ==
    \A p \in Runs :
        pc[p] = "join" =>
            \A i \in DOMAIN batch[p] :
                \A j \in (DOMAIN ready[p]) \ (DOMAIN batch[p]) :
                    batch[p][i].phase.number < ready[p][j].phase.number


CountIn(seq, x) == Cardinality({i \in DOMAIN seq : seq[i] = x})

\* a phase that is Schedulable or NeedsPlanning, with no passing verification
\* file, whose dependency is met
Qualifies(phase, phases, phase_dirs) ==
    /\ phase.schedulability \in {"Schedulable", "NeedsPlanning"}
    /\ ~(padded(phase.number) \in DOMAIN phase_dirs
         /\ phase_dirs[padded(phase.number)].verif = "passed")
    /\ is_dependency_met(phase.number, phases, phase_dirs)

Excluded == {"AlreadyComplete", "NeedsHuman", "NeedsDiscussionOrPlanning"}

\* C11: over a whole run the agent is invoked only by a worker of the current
\* batch, on the phase the worker was launched for, and no row of the roadmap
\* with the number of a launched phase was classified AlreadyComplete,
\* NeedsHuman or NeedsDiscussionOrPlanning by the iteration that built the batch.
C11_NeverDispatched ==
    [][/\ \A p \in Runs :
            (pc[p] = "iterate" /\ pc'[p] = "join") =>
                \A i \in DOMAIN workers'[p] : \A k \in DOMAIN roadmap[1] :
                    roadmap[1][k].number = workers'[p][i].phase
                        => determine_schedulability(roadmap[1][k], dirs) \notin Excluded
       /\ \A p \in Runs :
            (pc[p] = "join" /\ workers'[p] # <<>>) =>
                [i \in DOMAIN workers'[p] |-> workers'[p][i].phase]
                    = [i \in DOMAIN workers[p] |-> workers[p][i].phase]
       /\ calls' # calls =>
            \E p \in Runs : \E i \in DOMAIN workers[p] :
                /\ pc[p] = "join"
                /\ Len(workers'[p][i].prompts) = Len(workers[p][i].prompts) + 1
                /\ \A q \in Runs : \A j \in DOMAIN workers[q] :
                      <<q, j>> # <<p, i>> => workers'[q][j] = workers[q][j]]_vars

C11_Witness ==
    \E p \in Runs :
        /\ pc[p] = "join"
        /\ \E i \in DOMAIN workers[p] : workers[p][i].prompts # <<>>
        /\ \E k \in DOMAIN roadmap[1] :
              /\ determine_schedulability(roadmap[1][k], dirs) = "AlreadyComplete"
              /\ \A i \in DOMAIN workers[p] : workers[p][i].phase # roadmap[1][k].number
        /\ \E k \in DOMAIN roadmap[1] :
              determine_schedulability(roadmap[1][k], dirs) = "NeedsPlanning"


\* the verification file of the phase numbered n passes
VerifiedOnDisk(n, phase_dirs) ==
    padded(n) \in DOMAIN phase_dirs /\ phase_dirs[padded(n)].verif = "passed"

\* C12: a decimal phase X.k is dependency-met only if an integer phase X is in
\* the phase list and that phase is Complete or has a passing verification; with
\* no integer phase X in the list, X.k is blocked whatever is on disk.
C12_DecimalNeedsParent ==
    (fn_out # <<>> /\ is_decimal(fn_in.num) /\ fn_out[1]) =>
        LET parent == FromInteger(parent_integer(fn_in.num)) IN
        \E i \in DOMAIN fn_in.rows :
            /\ fn_in.rows[i].number = parent
            /\ (fn_in.rows[i].status = "Complete" \/ VerifiedOnDisk(parent, fn_in.dirs))


\* no phase number is listed twice
UniqueRows(rows) ==
    \A i \in DOMAIN rows : \A j \in DOMAIN rows : i # j => rows[i].number # rows[j].number

Statuses == {"NotStarted", "InProgress", "Complete", "Deferred"}

\* the rows of the decimal phases other than the phase asked about
OtherDecimals(rows, num) ==
    {i \in DOMAIN rows : is_decimal(rows[i].number) /\ rows[i].number # num}

\* the phase lists that differ from rows in the status of those phases only
RowVariants(rows, num) ==
    {[i \in DOMAIN rows |->
        IF i \in OtherDecimals(rows, num) THEN Row(rows[i].number, st[i]) ELSE rows[i]] :
     st \in [OtherDecimals(rows, num) -> Statuses]}

\* the directories that differ from phase_dirs in what those phases have on disk
DirVariants(phase_dirs, rows, num) ==
    LET keys == {padded(rows[i].number) : i \in OtherDecimals(rows, num)}
        rest == (DOMAIN phase_dirs) \ keys
    IN UNION {{[k \in rest \cup present |->
                   IF k \in rest THEN phase_dirs[k] ELSE g[k]] :
               g \in [present -> DepDirKinds]} : present \in SUBSET keys}

\* X is Complete and X.1, X.2 and X+1 are runnable and not verified
SiblingsRunnable(x, rows, phase_dirs) ==
    /\ \E i \in DOMAIN rows : rows[i].number = FromInteger(x) /\ rows[i].status = "Complete"
    /\ \A n \in {FromInteger(x) + 1, FromInteger(x) + 2, FromInteger(x + 1)} :
          /\ \E i \in DOMAIN rows :
                /\ rows[i].number = n
                /\ determine_schedulability(rows[i], phase_dirs)
                       \in {"Schedulable", "NeedsPlanning"}
          /\ ~VerifiedOnDisk(n, phase_dirs)

\* C14: in every iteration that builds a batch, whether a phase is
\* dependency-met does not change with the status or the verification of any
\* other decimal phase: siblings X.j do not gate X.k, and no X.k gates X+1.  So
\* an iteration that finds X Complete and X.1, X.2,
\* X+1 runnable and unverified has all three in its ready set, and its batch is
\* the lowest max_parallel phases of the ready set.
C14_SiblingsIndependent ==
    [][\A p \in Runs :
          (pc[p] = "iterate" /\ pc'[p] = "join") =>
              /\ \A k \in DOMAIN roadmap[1] :
                    LET num == roadmap[1][k].number IN
                    \A rv \in RowVariants(roadmap[1], num) :
                        \A dv \in DirVariants(dirs, roadmap[1], num) :
                            is_dependency_met(num, rv, dv)
                                = is_dependency_met(num, roadmap[1], dirs)
              /\ \A x \in 1..3 :
                    SiblingsRunnable(x, roadmap[1], dirs)
                        => /\ {FromInteger(x) + 1, FromInteger(x) + 2, FromInteger(x + 1)}
                                \subseteq {ready'[p][i].phase.number : i \in DOMAIN ready'[p]}
                           /\ Len(batch'[p]) = Min(max_parallel, Len(ready'[p]))
                           /\ \A i \in DOMAIN batch'[p] : \A j \in DOMAIN ready'[p] :
                                (\A m \in DOMAIN batch'[p] : ready'[p][j] # batch'[p][m])
                                    => batch'[p][i].phase.number
                                           < ready'[p][j].phase.number]_vars

C14_Witness ==
    \E p \in Runs :
        /\ pc[p] = "join"
        /\ calls = 0
        /\ SiblingsRunnable(1, roadmap[1], dirs)
        /\ max_parallel = 2
        /\ [i \in DOMAIN ready[p] |-> ready[p][i].phase.number] = <<11, 12, 20>>
        /\ [i \in DOMAIN batch[p] |-> batch[p][i].phase.number] = <<11, 12>>


\* C15: a plan or execute invocation that fails ends the lifecycle with
\* ExecutionFailed after that one invocation, a verify invocation that fails
\* ends it with VerificationFailed; a worker that has failed invokes the agent
\* no more; a step of one worker leaves the other workers of the batch as they
\* are, each of which can always take its own next step.
C15_FailureIsLocal ==
    /\ [][\A p \in Runs : \A i \in (DOMAIN workers[p]) \cap (DOMAIN workers'[p]) :
            LET w == workers[p][i] IN
            /\ ~w.success => workers'[p][i].prompts = w.prompts
            /\ (w.pc = "conclude" /\ workers'[p][i].pc = "exit") =>
                  /\ Len(results'[p]) = Len(results[p]) + 1
                  /\ SubSeq(results'[p], 1, Len(results[p])) = results[p]
                  /\ results'[p][Len(results'[p])].phase = w.phase
                  /\ (~w.success /\ w.stage = "first") =>
                        /\ results'[p][Len(results'[p])].outcome = "ExecutionFailed"
                        /\ Len(w.prompts) = 1
                  /\ (~w.success /\ w.stage = "verify") =>
                        results'[p][Len(results'[p])].outcome = "VerificationFailed"
            /\ workers'[p][i] # w =>
                  \A j \in (DOMAIN workers[p]) \cap (DOMAIN workers'[p]) :
                      j # i => workers'[p][j] = workers[p][j]]_vars
    /\ [](\A p \in Runs : \A i \in DOMAIN workers[p] :
            /\ (workers[p][i].pc = "run" /\ calls < call_cap) => ENABLED RunClaude(p, i)
            /\ workers[p][i].pc = "record_write" => ENABLED RecordWrite(p, i)
            /\ workers[p][i].pc = "conclude" => ENABLED Conclude(p, i))

\* one worker failed at its first stage, another of the same batch was verified
C15_Witness ==
    \E p \in Runs : \E i \in DOMAIN results[p], j \in DOMAIN results[p] :
        /\ results[p][i].outcome = "ExecutionFailed"
        /\ results[p][j].outcome = "Verified"
        /\ \E k \in DOMAIN workers[p] :
              /\ workers[p][k].phase = results[p][i].phase
              /\ workers[p][k].prompts = <<"execute-phase">>


\* C16: the lifecycle returns Verified exactly when every agent invocation it
\* made exited zero, the last of them was verify-work, and the verification
\* file of the phase, read after the verify step, has status passed; after a
\* verify invocation that exited zero it returns VerificationFailed otherwise.
C16_VerifiedIffPassed ==
    [][\A p \in Runs : \A i \in (DOMAIN workers[p]) \cap (DOMAIN workers'[p]) :
          LET w == workers[p][i]
              outcome == results'[p][Len(results'[p])].outcome
              zero == \A k \in DOMAIN w.exits : w.exits[k]
              verify == w.prompts # <<>> /\ w.prompts[Len(w.prompts)] = "verify-work"
          IN (w.pc = "conclude" /\ workers'[p][i].pc = "exit") =>
                /\ outcome = "Verified" <=> (zero /\ verify /\ VerifiedOnDisk(w.phase, dirs))
                /\ (zero /\ verify /\ ~VerifiedOnDisk(w.phase, dirs))
                      => outcome = "VerificationFailed"]_vars

\* every invocation of two lifecycles exited zero; one phase is verified, the
\* verification file of the other does not pass
C16_Witness ==
    \E p \in Runs : \E i \in DOMAIN results[p], j \in DOMAIN results[p] :
        /\ results[p][i].outcome = "Verified"
        /\ results[p][j].outcome = "VerificationFailed"
        /\ \A k \in DOMAIN workers[p] : workers[p][k].exits = <<TRUE, TRUE>>
        /\ dirs[padded(results[p][j].phase)].verif = "gaps_found"


\* the ledger label that belongs to a prompt
LabelOf(prompt) ==
    IF prompt = "plan-phase" THEN "plan"
    ELSE IF prompt = "execute-phase" THEN "execute"
    ELSE "verify"

\* C17: every agent invocation of a lifecycle is followed by exactly one
\* record_cost of that worker, before its next invocation and before its
\* outcome: the worker invokes the agent only between record_cost calls, leaves
\* record_cost only by writing the ledger with a last entry that holds the
\* display number of its phase, the label of the prompt just run and the cost
\* reported (0 when none was), and reaches its outcome only from there; the
\* ledger is written by nothing else.
C17_CostAfterEveryCall ==
    [][/\ \A p \in Runs : \A i \in (DOMAIN workers[p]) \cap (DOMAIN workers'[p]) :
            LET w == workers[p][i]
                v == workers'[p][i]
            IN /\ v.prompts # w.prompts =>
                     (w.pc = "run" /\ v.pc = "record_write"
                      /\ v.prompts = Append(w.prompts, v.prompts[Len(v.prompts)]))
               /\ (w.pc = "record_write" /\ v.pc # "record_write") =>
                     /\ v.pc \in {"run", "conclude"}
                     /\ v.prompts = w.prompts
                     /\ ledger' # <<>>
                     /\ ledger'[Len(ledger')] =
                          [date |-> <<Today>>, phase |-> display(w.phase),
                           action |-> LabelOf(w.prompts[Len(w.prompts)]),
                           cost_usd |-> w.cost_usd]
               /\ (v.pc \in {"run", "conclude"} /\ v.pc # w.pc) => w.pc = "record_write"
       /\ ledger' # ledger =>
            Cardinality({pi \in {<<p, i>> : p \in Runs, i \in 1..MaxParallel} :
                           /\ pi[2] \in (DOMAIN workers[pi[1]]) \cap (DOMAIN workers'[pi[1]])
                           /\ workers[pi[1]][pi[2]].pc = "record_write"
                           /\ workers'[pi[1]][pi[2]].pc # "record_write"}) = 1]_vars

\* a lifecycle whose plan step was recorded with its cost and whose failed
\* verify step was recorded with cost zero
C17_Witness ==
    \E p \in Runs : \E i \in DOMAIN workers[p] :
        /\ workers[p][i].pc = "conclude"
        /\ workers[p][i].exits = <<TRUE, FALSE>>
        /\ Len(ledger) >= 2
        /\ ledger[Len(ledger)] = UsageEntry(display(workers[p][i].phase), "verify", 0)
        /\ ledger[Len(ledger) - 1] = UsageEntry(display(workers[p][i].phase), "plan", MaxCost)


Exhausted == weekly_budget # <<>> /\ weekly_spend(ledger) >= weekly_budget[1]

\* every invocation of every worker of p's batch has its entry in the ledger
BatchRecorded(p) ==
    \A i \in DOMAIN workers[p] : \A k \in DOMAIN workers[p][i].prompts :
        \E e \in DOMAIN ledger :
            /\ ledger[e].date = <<Today>>
            /\ ledger[e].phase = display(workers[p][i].phase)
            /\ ledger[e].action = LabelOf(workers[p][i].prompts[k])

\* a batch is dispatched only straight after a budget check of the same
\* iteration that found the spend below the budget
C19_CheckBeforeBatch ==
    [][\A p \in Runs :
          /\ (pc'[p] = "join" /\ pc[p] # "join") => pc[p] = "iterate"
          /\ (pc'[p] = "iterate" /\ pc[p] # "iterate") => (pc[p] = "loop" /\ ~Exhausted)]_vars

\* a run that finds the budget reached after a batch invokes the agent no more
C19_HaltAfterOverrun ==
    /\ [][\A p \in Runs :
            (pc[p] = "loop" /\ pc'[p] # "loop" /\ Exhausted)
                => (pc'[p] = "drop" /\ trail'[p].exit = "budget")]_vars
    /\ [](\A p \in Runs : pc[p] \in {"drop", "done"} => workers[p] = <<>>)

\* C19: when a weekly budget is given, every batch dispatch directly follows a
\* budget check of the same iteration that found weekly spend < budget; when
\* the costs recorded by a batch bring the spend to the budget or above, the
\* run invokes no agent after that batch, and the entries of that batch are in
\* the ledger.  (Stated for the roadmaps whose phase numbers are unique.)
C19_BudgetHalts ==
    /\ C19_CheckBeforeBatch
    /\ C19_HaltAfterOverrun
    /\ [](UniqueNumbers =>
            \A p \in Runs : (BatchJoined(p) /\ Exhausted) => BatchRecorded(p))


\* C20: the loop goes on past a batch only when every worker of the batch has
\* finished its lifecycle, and execute_batch then holds exactly one outcome for
\* each phase of the batch; the roadmap is reparsed and the next batch computed
\* only from the top of the loop, where no worker is left.
C20_JoinBarrier ==
    /\ [][\A p \in Runs :
            /\ (pc[p] = "join" /\ pc'[p] # "join") =>
                  /\ \A i \in DOMAIN workers[p] : workers[p][i].pc = "exit"
                  /\ Len(results[p]) = Len(batch[p])
                  /\ \A i \in DOMAIN batch[p] :
                        CountIn([k \in DOMAIN results[p] |-> results[p][k].phase],
                                batch[p][i].phase.number)
                          = CountIn([k \in DOMAIN batch[p] |-> batch[p][k].phase.number],
                                    batch[p][i].phase.number)
            /\ (pc'[p] = "loop" /\ pc[p] # "loop") => pc[p] \in {"lock_write", "join"}
            /\ (pc'[p] = "iterate" /\ pc[p] # "iterate") => pc[p] = "loop"]_vars
    /\ [](\A p \in Runs :
            pc[p] \in {"loop", "iterate"} => (workers[p] = <<>> /\ results[p] = <<>>))

\* a second batch of two workers, launched after a first batch was joined
C20_Witness ==
    \E p \in Runs :
        /\ pc[p] = "join"
        /\ calls >= 3
        /\ Len(workers[p]) = 2
        /\ \A i \in DOMAIN workers[p] : workers[p][i].prompts = <<>>


\* C21: after a batch the loop starts another iteration exactly when a phase
\* of the batch ended Verified; when none did, the loop stops, and a run whose
\* loop has stopped has no worker and invokes the agent no more.
C21_ProgressOrStop ==
    /\ [][\A p \in Runs :
            /\ (pc[p] = "join" /\ pc'[p] # "join") =>
                  LET verified == \E i \in DOMAIN results[p] :
                                      results[p][i].outcome = "Verified"
                  IN /\ pc'[p] = "loop" <=> verified
                     /\ ~verified => (pc'[p] = "drop" /\ trail'[p].exit = "noprogress")
            /\ pc[p] \in {"drop", "done"} =>
                  (pc'[p] \in {"drop", "done"} /\ workers'[p] = <<>>)]_vars
    /\ [](\A p \in Runs : pc[p] \in {"drop", "done"} => workers[p] = <<>>)

\* a first batch verified its phase, the second batch did not, the run stopped
C21_Witness ==
    \E p \in Runs :
        /\ pc[p] = "done"
        /\ trail[p].exit = "noprogress"
        /\ max_parallel = 1
        /\ calls >= 3


\* the phase q waits for: the parent of a decimal phase, the greatest lower
\* integer phase of the roadmap for an integer phase; 0 when there is none
PredecessorOf(q, rows) ==
    IF q % 10 # 0 THEN (q \div 10) * 10
    ELSE LET below == {n \in {rows[i].number : i \in DOMAIN rows} : n % 10 = 0 /\ n < q}
         IN IF below = {} THEN 0 ELSE CHOOSE n \in below : \A m \in below : m <= n

\* C22: what batch n wrote is seen when iteration n+1 computes its ready set:
\* a phase that is Schedulable or NeedsPlanning and unverified, and whose
\* predecessor ended Verified in the batch just joined, is in the ready set of
\* the next iteration.
C22_NextBatchSeesArtifacts ==
    [][\A p \in Runs :
          (pc[p] = "iterate" /\ pc'[p] # "iterate" /\ roadmap # <<>>) =>
              \A k \in DOMAIN roadmap[1] :
                  LET q == roadmap[1][k] IN
                  (/\ determine_schedulability(q, dirs) \in {"Schedulable", "NeedsPlanning"}
                   /\ ~VerifiedOnDisk(q.number, dirs)
                   /\ PredecessorOf(q.number, roadmap[1]) \in trail[p].verified)
                      => /\ pc'[p] = "join"
                         /\ \E i \in DOMAIN ready'[p] :
                               ready'[p][i].phase.number = q.number]_vars

\* phases 1 Complete, 2, 3: phase 2 was verified by the first batch and the
\* ready set of the second iteration is [3]
C22_Witness ==
    \E p \in Runs :
        /\ pc[p] = "join"
        /\ trail[p].verified = {20}
        /\ [i \in DOMAIN ready[p] |-> ready[p][i].phase.number] = <<30>>
        /\ \A i \in DOMAIN workers[p] : workers[p][i].prompts = <<>>


\* C23: within one batch no two workers run the same phase number, so no two
\* concurrent workers append to the same phase-<display>.log, whatever rows the
\* roadmap holds.
C23_OneWorkerPerPhase ==
    \A p \in Runs : \A i \in DOMAIN workers[p] : \A j \in DOMAIN workers[p] :
        i # j => display(workers[p][i].phase) # display(workers[p][j].phase)


\* C24: the classifier assigns one schedulability to a phase, by the first rule
\* that matches: status Complete: AlreadyComplete; status Deferred:
\* NeedsDiscussionOrPlanning; no directory for the padded number:
\* NeedsDiscussionOrPlanning; a directory with a plan file: NeedsHuman if a plan
\* says autonomous: false, else Schedulable; a directory with no plan but a
\* context file: NeedsPlanning; otherwise NeedsDiscussionOrPlanning.
C24_FirstMatchingRule ==
    fn_out # <<>> =>
        LET st == fn_in.phase.status
            key == padded(fn_in.phase.number)
            open == st # "Complete" /\ st # "Deferred"
            found == open /\ key \in DOMAIN fn_in.dirs
            out == fn_out[1]
        IN /\ Len(fn_out) = 1
           /\ out \in {"AlreadyComplete", "NeedsDiscussionOrPlanning", "NeedsHuman",
                       "Schedulable", "NeedsPlanning"}
           /\ st = "Complete" => out = "AlreadyComplete"
           /\ st = "Deferred" => out = "NeedsDiscussionOrPlanning"
           /\ (open /\ ~found) => out = "NeedsDiscussionOrPlanning"
           /\ (found /\ fn_in.dirs[key].plans /\ fn_in.dirs[key].nonauto)
                 => out = "NeedsHuman"
           /\ (found /\ fn_in.dirs[key].plans /\ ~fn_in.dirs[key].nonauto)
                 => out = "Schedulable"
           /\ (found /\ ~fn_in.dirs[key].plans /\ fn_in.dirs[key].context)
                 => out = "NeedsPlanning"
           /\ (found /\ ~fn_in.dirs[key].plans /\ ~fn_in.dirs[key].context)
                 => out = "NeedsDiscussionOrPlanning"

\* a phase in progress whose directory holds a plan and a context file
C24_Witness ==
    /\ fn_out = <<"Schedulable">>
    /\ fn_in.phase = Row(11, "InProgress")
    /\ fn_in.dirs[<<1, 1>>].plans
    /\ fn_in.dirs[<<1, 1>>].context


\* the lines of an output that are result objects with a numeric cost
CostLines(out) == {i \in DOMAIN out : out[i][1] = "result" /\ Len(out[i]) = 2}

\* C25: when the agent's stdout holds several result lines with a numeric
\* total_cost_usd, the cost taken is that of the last such line.
C25_LastResultWins ==
    (fn_out # <<>> /\ Cardinality(CostLines(fn_in.stdout)) >= 2) =>
        \E i \in CostLines(fn_in.stdout) :
            /\ \A j \in CostLines(fn_in.stdout) : j <= i
            /\ fn_out[1] = fn_in.stdout[i][2]


\* the time of day, in minutes, that a well-formed part names
MinuteOf(part) == part[1] * 60 + part[2]

\* the window argument is a string of two well-formed times
WellFormed(window) ==
    /\ window # <<>>
    /\ Len(window[1]) = 2
    /\ \A i \in 1..2 :
         /\ Len(window[1][i]) = 2
         /\ window[1][i][1] >= 0 /\ window[1][i][1] <= 23
         /\ window[1][i][2] >= 0 /\ window[1][i][2] <= 59

\* C26: for a well-formed window, start <= end makes the time within the
\* window exactly when start <= now < end (so never when start = end), and
\* start > end makes it within exactly when now >= start or now < end.
C26_WindowPredicate ==
    (fn_out # <<>> /\ WellFormed(fn_in.window)) =>
        LET start == MinuteOf(fn_in.window[1][1])
            end == MinuteOf(fn_in.window[1][2])
            now == fn_in.now
        IN /\ start <= end => (fn_out[1] <=> (start <= now /\ now < end))
           /\ start = end => ~fn_out[1]
           /\ start > end => (fn_out[1] <=> (now >= start \/ now < end))

C26_Witness ==
    /\ fn_out = <<TRUE>>
    /\ WellFormed(fn_in.window)
    /\ MinuteOf(fn_in.window[1][1]) > MinuteOf(fn_in.window[1][2])
    /\ fn_in.now < MinuteOf(fn_in.window[1][2])

\* C27: a window argument that is not two well-formed times is within the
\* window at no time of day, and the run returns at once having read and
\* written nothing; with no window argument every time is within the window
\* and the run goes on to its budget check.
C27_MalformedNeverRuns ==
    [][\A p \in Runs : (pc[p] = "idle" /\ pc'[p] # "idle") =>
            /\ UNCHANGED <<files, args, locals, calls>>
            /\ (fn_in.window # <<>> /\ ~WellFormed(fn_in.window)) =>
                 /\ fn_out' = <<FALSE>>
                 /\ pc'[p] = "done"
                 /\ trail'[p] = [NoTrail EXCEPT !.exit = "window"]
            /\ fn_in.window = <<>> =>
                 /\ fn_out' = <<TRUE>>
                 /\ pc'[p] = "budget"
                 /\ trail'[p] = NoTrail]_vars

C27_Witness ==
    /\ fn_out = <<FALSE>>
    /\ fn_in.window # <<>>
    /\ Len(fn_in.window[1]) = 2
    /\ ~WellFormed(fn_in.window)
    /\ pc[1] = "done"


\* the date parses and is a day of the week, Monday to Sunday, that holds Today
InThisWeek(date) == date # <<>> /\ date[1] \div 7 = Today \div 7

RECURSIVE SumCosts(_, _)
SumCosts(entries, idx) ==
    IF idx = {} THEN 0
    ELSE LET i == CHOOSE j \in idx : TRUE
         IN entries[i].cost_usd + SumCosts(entries, idx \ {i})

\* C28: the weekly spend of a ledger is the sum of cost_usd over the entries
\* whose date parses and lies in the Monday-to-Sunday week of today; entries
\* with an unparseable date or of another week add nothing, and the empty
\* ledger gives 0.
C28_WeeklySpend ==
    fn_out # <<>> =>
        /\ fn_out.before =
             SumCosts(fn_out.ledger,
                      {i \in DOMAIN fn_out.ledger : InThisWeek(fn_out.ledger[i].date)})
        /\ fn_out.ledger = <<>> => fn_out.before = 0

C28_Witness ==
    /\ fn_out # <<>>
    /\ \E i, j, k \in DOMAIN fn_out.ledger :
         /\ InThisWeek(fn_out.ledger[i].date)
         /\ fn_out.ledger[j].date = <<>>
         /\ fn_out.ledger[k].date # <<>> /\ ~InThisWeek(fn_out.ledger[k].date)
    /\ fn_out.before > 0

\* C29: after record_cost(p, a, c) the weekly spend of the ledger read back
\* from usage.json is the weekly spend before the call plus c, whatever the
\* file held before, a missing or unparseable file counting as empty.
C29_RecordAddsCost ==
    fn_out # <<>> => fn_out.after = fn_out.before + fn_in.cost_usd

C29_Witness ==
    /\ fn_out # <<>>
    /\ fn_in.file[1] = "json"
    /\ fn_in.cost_usd > 0
    /\ fn_out.before > 0
    /\ fn_out.after = fn_out.before + fn_in.cost_usd


\* the lines of a crontab that are not of the given project: the blocks of
\* other projects and the user's own jobs
LinesOfOthers(lines, project) ==
    LET Other(line) == line.kind # "blank" /\ line.project # project
    IN SelectSeq(lines, Other)

\* C30: removing the entries of a project leaves every line of another
\* project's block and every unrelated job in the crontab, unchanged and in
\* order, for every pair of project paths (one may be a prefix of the other)
\* and also when a begin tag has no END tag.
C30_OthersUntouched ==
    fn_out # <<>> =>
        LinesOfOthers(str_lines(fn_out[1]), fn_in.project_path)
            = LinesOfOthers(str_lines(fn_in.crontab_content), fn_in.project_path)


\* the line is the begin tag, an entry or the END tag of the project
TaggedFor(line, project) ==
    line.kind \in {"begin", "entry", "end"} /\ line.project = project

\* C31: after the removal for a project no line of the crontab carries the
\* project's tag: the begin tag, the END tag, the lines between them and every
\* line anywhere whose trailing comment holds the project's inline tag are gone.
C31_NoTagLeft ==
    fn_out # <<>> =>
        \A i \in DOMAIN str_lines(fn_out[1]) :
            ~TaggedFor(str_lines(fn_out[1])[i], fn_in.project_path)


\* the command run last, if any, was of the given kind
LastOp(out, kind) == out.ops # <<>> /\ out.ops[Len(out.ops)].op = kind

\* C32: remove is idempotent: a removal that follows a removal for the same
\* project leaves the crontab as the first removal left it, also when the
\* first removal left no crontab.
C32_RemoveIdempotent ==
    [][(LastOp(fn_out, "remove") /\ LastOp(fn_out', "remove")
        /\ Len(fn_out'.ops) = Len(fn_out.ops) + 1)
       => fn_out'.crontab = fn_out.crontab]_vars

\* C36: after any sequence of installs for a project the crontab ends with
\* exactly one block of the project, the entries of the last install, no other
\* line carries the project's tag, and the lines of other jobs and projects are
\* those of the crontab before the first install.
C36_InstallReplaces ==
    (fn_out.ops # <<>> /\ \A i \in DOMAIN fn_out.ops : fn_out.ops[i].op = "install") =>
        LET ls == str_lines(read_crontab(fn_out.crontab))
            block == generate_entries(fn_out.ops[Len(fn_out.ops)].slots, fn_in.project_path)
            Mine(line) == TaggedFor(line, fn_in.project_path)
        IN /\ SelectSeq(ls, Mine) = block
           /\ Len(ls) >= Len(block)
           /\ SubSeq(ls, Len(ls) - Len(block) + 1, Len(ls)) = block
           /\ LinesOfOthers(ls, fn_in.project_path)
                = LinesOfOthers(str_lines(read_crontab(fn_in.crontab)), fn_in.project_path)


\* C33: every phase that parse_roadmap produces has plans_complete.done at
\* most plans_complete.total, whatever N/M or N% cell the row holds.
C33_DoneAtMostTotal ==
    fn_out # <<>> => fn_out[1][1] <= fn_out[1][2]


\* how many times the phase at place i stands in the slots of a schedule
RECURSIVE InSlots(_, _)
InSlots(slots, i) ==
    IF slots = <<>> THEN 0
    ELSE Cardinality({j \in DOMAIN slots[1].phases : slots[1].phases[j] = i})
         + InSlots(Tail(slots), i)

\* how many times the phase at place i stands in the skipped list
InSkipped(skipped, i) == Cardinality({j \in DOMAIN skipped : skipped[j].idx = i})

\* C34: build_schedule partitions its input: every phase stands exactly once
\* in the result, in one slot if and only if it is Schedulable and otherwise
\* in the skipped list with the reason of its schedulability; with no
\* Schedulable phase there is no slot.
C34_SchedulePartitions ==
    fn_out # <<>> =>
        LET out == fn_out[1] IN
        /\ \A i \in DOMAIN fn_in.phases :
             LET sch == fn_in.phases[i].schedulability IN
             /\ InSlots(out.slots, i) + InSkipped(out.skipped, i) = 1
             /\ InSlots(out.slots, i) = 1 <=> sch = "Schedulable"
             /\ \A j \in DOMAIN out.skipped :
                  out.skipped[j].idx = i => out.skipped[j].reason = SkipReason(sch)
        /\ (\A i \in DOMAIN fn_in.phases : fn_in.phases[i].schedulability # "Schedulable")
             => out.slots = <<>>

\* the levels of the slots that hold the phase at place i
LevelsOf(slots, i) ==
    {slots[k].level : k \in {k \in DOMAIN slots :
                               \E j \in DOMAIN slots[k].phases : slots[k].phases[j] = i}}

\* C35: among the scheduled phases, integer phases stand at ascending levels;
\* the decimal children of a scheduled integer phase share one slot, whose
\* level is above the parent's and below that of every later integer phase;
\* the slot of level L has the time start_time + L * interval_minutes, wrapped
\* at 24 hours.
C35_LevelsAndTimes ==
    fn_out # <<>> =>
        LET out == fn_out[1]
            scheduled == {i \in DOMAIN fn_in.phases :
                            fn_in.phases[i].schedulability = "Schedulable"}
            num(i) == fn_in.phases[i].number
            ints == {i \in scheduled : ~is_decimal(num(i))}
            children(x) == {d \in scheduled :
                              is_decimal(num(d)) /\ parent_integer(num(d)) = num(x) \div 10}
        IN /\ \A x, y \in ints : num(x) < num(y) =>
                \A lx \in LevelsOf(out.slots, x), ly \in LevelsOf(out.slots, y) : lx < ly
           /\ \A x \in ints : children(x) # {} =>
                \E l \in 0..(2 * Len(fn_in.phases)) :
                    /\ \A d \in children(x) : LevelsOf(out.slots, d) = {l}
                    /\ \A lx \in LevelsOf(out.slots, x) : lx < l
                    /\ \A y \in ints : num(y) > num(x) =>
                         \A ly \in LevelsOf(out.slots, y) : l < ly
           /\ \A k \in DOMAIN out.slots :
                out.slots[k].time =
                    (fn_in.start_time + out.slots[k].level * fn_in.interval_minutes * 60)
                        % 86400


\* C37: a phase whose lifecycle returned Verified in a batch of a run is in no
\* later batch of that run while its verification file still says passed.
C37_VerifiedNotRepeated ==
    [][\A p \in Runs :
          (pc[p] = "iterate" /\ pc'[p] = "join") =>
              \A i \in DOMAIN batch'[p] :
                  ~(/\ batch'[p][i].phase.number \in trail[p].ever
                    /\ VerifiedOnDisk(batch'[p][i].phase.number, dirs))]_vars

\* a second batch is running, without the phase that the first batch verified
\* and whose verification still says passed
C37_Witness ==
    \E p \in Runs :
        /\ pc[p] = "join"
        /\ batch[p] # <<>>
        /\ \E n \in trail[p].ever :
             /\ VerifiedOnDisk(n, dirs)
             /\ \A i \in DOMAIN batch[p] : batch[p][i].phase.number # n


\* every agent invocation that a worker is about to make can be made
Uncapped ==
    \A p \in Runs : \A i \in DOMAIN workers[p] :
        workers[p][i].pc = "run" => calls < call_cap

\* the rows of the roadmap as read
RowCount == IF roadmap = <<>> THEN 0 ELSE Len(roadmap[1])

\* C38: when every agent invocation terminates, the phase list is fixed and no
\* passing verification is removed, the main loop of run terminates: every
\* iteration that goes on to another has verified a phase that was not
\* verified by this run before, so the loop body is entered at most
\* (number of phases + 1) times, and the run ends.
C38_LoopTerminates ==
    /\ [][\A p \in Runs :
            (pc[p] = "join" /\ pc'[p] = "loop") =>
                /\ trail[p].ever \subseteq trail'[p].ever
                /\ trail[p].ever # trail'[p].ever]_vars
    /\ [](\A p \in Runs :
            /\ \A n \in trail[p].ever : VerifiedOnDisk(n, dirs)
            /\ trail[p].iterations <= RowCount + 1)
    /\ []Uncapped
    /\ <>(\A p \in Runs : pc[p] = "done")

\* a run has ended after three iterations, two of which verified a phase
C38_Witness ==
    /\ pc[1] = "done"
    /\ trail[1].iterations = 3
    /\ Cardinality(trail[1].ever) = 2
    /\ trail[1].exit = "complete"


\* the row of the phase is Complete or its directory holds a passing verification
DoneOrVerified(n, rows, phase_dirs) ==
    \/ \E k \in DOMAIN rows : rows[k].number = n /\ rows[k].status = "Complete"
    \/ VerifiedOnDisk(n, phase_dirs)

\* every predecessor up the chain of the phase is in the roadmap and is Complete
\* or verified
RECURSIVE ChainDone(_, _, _)
ChainDone(n, rows, phase_dirs) ==
    LET pred == PredecessorOf(n, rows) IN
    IF pred = 0 THEN TRUE
    ELSE /\ \E k \in DOMAIN rows : rows[k].number = pred
         /\ DoneOrVerified(pred, rows, phase_dirs)
         /\ ChainDone(pred, rows, phase_dirs)

\* C39: with no window, no budget, max_parallel >= 1 and an agent that always
\* exits zero and leaves a passing verification, a run ends, it ends because the
\* ready set is empty, and then every phase that was Schedulable or
\* NeedsPlanning when the run began and whose chain of predecessors is Complete
\* or verified has a passing verification.
C39_Converges ==
    /\ <>(\A p \in Runs : pc[p] = "done")
    /\ []Uncapped
    /\ [](\A p \in Runs :
            (pc[p] = "done" /\ trail[p].exit # "none" /\ roadmap # <<>>) =>
                /\ trail[p].exit \in {"complete", "empty"}
                /\ find_ready_phases(Classify(roadmap[1], dirs), dirs) = <<>>
                /\ \A k \in DOMAIN roadmap[1] :
                     LET q == roadmap[1][k] IN
                     (/\ determine_schedulability(q, fn_in.dirs)
                            \in {"Schedulable", "NeedsPlanning"}
                      /\ ChainDone(q.number, roadmap[1], dirs))
                         => VerifiedOnDisk(q.number, dirs))

\* the run has ended with nothing ready after it verified two phases
C39_Witness ==
    /\ pc[1] = "done"
    /\ trail[1].exit = "complete"
    /\ Cardinality(trail[1].ever) >= 2
    /\ \A n \in trail[1].ever : VerifiedOnDisk(n, dirs) /\ ~VerifiedOnDisk(n, fn_in.dirs)


\* C40: readiness_label returns READY for a phase exactly when find_ready_phases
\* returns that phase, VERIFIED exactly when the phase has a passing verification
\* or is AlreadyComplete, and BLOCKED only for a Schedulable or NeedsPlanning
\* phase whose dependency is not met.
C40_LabelAgrees ==
    fn_out # <<>> =>
        \A k \in DOMAIN fn_out.phases :
            LET phase == fn_out.phases[k]
                label == fn_out.labels[k]
            IN /\ label = "READY" <=>
                    \E j \in DOMAIN fn_out.ready : fn_out.ready[j].phase = phase
               /\ label = "VERIFIED" <=>
                    \/ VerifiedOnDisk(phase.number, fn_in.dirs)
                    \/ phase.schedulability = "AlreadyComplete"
               /\ label = "BLOCKED" =>
                    /\ phase.schedulability \in {"Schedulable", "NeedsPlanning"}
                    /\ ~is_dependency_met(phase.number, fn_out.phases, fn_in.dirs)

\* a listing that shows a verified, a ready and a blocked phase
C40_Witness ==
    /\ fn_out # <<>>
    /\ Len(fn_out.ready) = 1
    /\ \A label \in {"VERIFIED", "READY", "BLOCKED"} :
         \E k \in DOMAIN fn_out.labels : fn_out.labels[k] = label


====
